---------------------------- MODULE Spec2Model ----------------------------
(***************************************************************************)
(* Constitutional Field: the per-tick simulation engine                    *)
(* (lib/sim/engine.ts, lib/operators/stagePresets.ts, lib/invariants/      *)
(* registry.ts, lib/sim/math.ts, lib/metrics, lib/alignment/controller).   *)
(*                                                                         *)
(* Numbers.  The program computes in IEEE doubles.  The model computes in  *)
(* fixed point: the integer n stands for the real n / U with U = 10000,    *)
(* products and quotients are rescaled and truncated toward zero.  The one *)
(* non-finite value the program produces, NaN, is kept as a value of its   *)
(* own with JavaScript's rules: arithmetic on NaN gives NaN, every         *)
(* comparison with NaN is false, Math.max / Math.min give NaN, `x || 1`    *)
(* replaces it by 1.  A field the constructor leaves out (undefined) reads *)
(* as NaN in arithmetic, as it does in JavaScript.                         *)
(*                                                                         *)
(* Identifiers.  Anchor ids are 1..8 (AnchorName gives the string), the    *)
(* id `dyn-<tick>-<n>` is the integer tick * 1000 + n, `basin-<tick>-<i>`  *)
(* is tick * 1000 + i.                                                     *)
(***************************************************************************)
EXTENDS Integers, Sequences, FiniteSets, TLC

\* ------------------------------------------------------------------------
\* Bounds of the model (not program constants)
\* ------------------------------------------------------------------------
MaxTick == 140
\* the tick at which the first simulation is replaced by a second one
RunLength == 45

\* ------------------------------------------------------------------------
\* Fixed-point numbers with NaN
\* ------------------------------------------------------------------------
U == 10000
NaN == -2000000000
NoTick == -1
NoId == 0

IsNaN(x) == x = NaN
IsFinite(x) == x # NaN

Add(a, b) == IF IsNaN(a) \/ IsNaN(b) THEN NaN ELSE a + b
Sub(a, b) == IF IsNaN(a) \/ IsNaN(b) THEN NaN ELSE a - b
Neg(a) == IF IsNaN(a) THEN NaN ELSE 0 - a

\* integer quotient truncated toward zero, b > 0
Quot(a, b) == IF a >= 0 THEN a \div b ELSE 0 - ((0 - a) \div b)

\* a * b and a / b on fixed-point numbers
Mul(a, b) == IF IsNaN(a) \/ IsNaN(b) THEN NaN ELSE Quot(a * b, U)
Div(a, b) ==
  IF IsNaN(a) \/ IsNaN(b) \/ b = 0 THEN NaN
  ELSE IF b > 0 THEN Quot(a * U, b) ELSE Quot((0 - a) * U, 0 - b)

\* a * n / d for plain integers n, d (a scaled by the rational n/d)
Scale(a, n, d) == IF IsNaN(a) THEN NaN ELSE Quot(a * n, d)

Lt(a, b) == IsFinite(a) /\ IsFinite(b) /\ a < b
Le(a, b) == IsFinite(a) /\ IsFinite(b) /\ a <= b
Gt(a, b) == Lt(b, a)
Ge(a, b) == Le(b, a)

\* Math.max, Math.min, Math.abs
MathMax(a, b) == IF IsNaN(a) \/ IsNaN(b) THEN NaN ELSE IF a >= b THEN a ELSE b
MathMin(a, b) == IF IsNaN(a) \/ IsNaN(b) THEN NaN ELSE IF a <= b THEN a ELSE b
MathAbs(a) == IF IsNaN(a) THEN NaN ELSE IF a < 0 THEN 0 - a ELSE a

\* `x || 1`: 0 and NaN are falsy
OrOne(x) == IF IsNaN(x) \/ x = 0 THEN U ELSE x

\* the hundreds of the square root of n, then the root among the next hundred
RootHundreds(n) ==
  CHOOSE h \in 0..463 : h * h * 10000 <= n /\ (h = 463 \/ (h + 1) * (h + 1) * 10000 > n)

RootFrom(n, low) ==
  CHOOSE r \in low..(low + 99) : r * r <= n /\ (r >= 46340 \/ (r + 1) * (r + 1) > n)

\* floor of the square root of a plain integer
ISqrt(n) == RootFrom(n, 100 * RootHundreds(n))

\* one Newton step toward the square root of n, and the final adjustment to
\* the floor
NewtonStep(n, x) == (x + n \div x) \div 2
FloorRoot(n, x) ==
  IF x * x > n THEN x - 1
  ELSE IF x < 46340 /\ (x + 1) * (x + 1) <= n THEN x + 1 ELSE x

\* floor(sqrt(a*a + b*b)) for a >= b >= 0, from the estimate a + b/2
HypotOrdered(a, b) ==
  IF a = 0 THEN 0
  ELSE FloorRoot(a * a + b * b,
         NewtonStep(a * a + b * b,
           NewtonStep(a * a + b * b,
             NewtonStep(a * a + b * b, a + b \div 2 + 1))))

HypotAbs(a, b) == IF a >= b THEN HypotOrdered(a, b) ELSE HypotOrdered(b, a)

\* Math.hypot on fixed-point numbers
Hypot(dx, dy) ==
  IF IsNaN(dx) \/ IsNaN(dy) THEN NaN
  ELSE HypotAbs(IF dx < 0 THEN 0 - dx ELSE dx, IF dy < 0 THEN 0 - dy ELSE dy)

\* Math.sqrt on a fixed-point number
MathSqrt(a) == IF IsNaN(a) \/ a < 0 THEN NaN ELSE ISqrt(a * U)

\* ------------------------------------------------------------------------
\* Sequence helpers (Array.prototype.filter / reduce)
\* ------------------------------------------------------------------------
Range(seq) == {seq[i] : i \in DOMAIN seq}

\* a sequence built element by element is an array: every element is computed once
Strict(seq) == seq \o << >>

\* const name = value; ... : a statement's value is computed before the
\* statements after it run, so the value is settled first and Body then names it
LetIn(value, Body(_)) == IF value = value THEN Body(value) ELSE Body(value)

RECURSIVE Iterate(_, _, _, _)
\* the iterations lo..hi of a loop whose body Once takes <<acc, k>> to the next
\* acc: the iterations lo..mid run first, then mid+1..hi on the value they left
Iterate(lo, hi, Once(_), acc) ==
  IF lo > hi THEN acc
  ELSE IF lo = hi THEN Once(<<acc, lo>>)
  ELSE LetIn(Iterate(lo, (lo + hi) \div 2, Once, acc),
             LAMBDA half : Iterate((lo + hi) \div 2 + 1, hi, Once, half))

\* for (k = lo; k <= hi; k += 1) acc = Body(acc, k)
ForEach(lo, hi, acc, Body(_, _)) == Iterate(lo, hi, LAMBDA it : Body(it[1], it[2]), acc)

\* sum of F(seq[i]) for i = k..Len(seq), NaN-propagating, left to right
SumOver(seq, F(_), k) == ForEach(k, Len(seq), 0, LAMBDA sum, i : Add(sum, F(seq[i])))

SelectSeqOf(seq, ids) == SelectSeq(seq, LAMBDA e : e.id \in ids)


\* ------------------------------------------------------------------------
\* Program constants (stagePresets.ts:8-80), in units of 1/U
\* ------------------------------------------------------------------------
MAX_PROBE_TRAIL_POINTS == 20
RESPAWN_RADIUS_PX == 100
SANCTUARY_SUPPORT_RADIUS == 3600
SANCTUARY_BASE_PULL == 8
SANCTUARY_MAX_PULL == 70
SANCTUARY_EDGE_SOFT_START == 7000
SANCTUARY_INV_BASE_PULL == 40
SANCTUARY_INV_MAX_PULL == 420
DISTRESS_GRACE_TICKS == 72
DISTRESS_RECOVERY_THRESHOLD == 400
CLUSTER_LINK_RADIUS == 2300
CLUSTER_TARGET_RING == 650
CLUSTER_COHESION_GAIN == 220
CLUSTER_SWIRL_GAIN == 12
DYNAMIC_CLUSTER_SOFT_CAP == 12
DYNAMIC_CLUSTER_SIZE_CEILING == 18
DYNAMIC_CLUSTER_ENERGY_PER_NODE_CEILING == 8500
DYNAMIC_CLUSTER_SHEAR_GAIN == 22
DYNAMIC_CLUSTER_DRAIN_GAIN == 120
DYNAMIC_CLUSTER_HARVEST_TO_BUDGET == 3500
DYNAMIC_CLUSTER_BUDGET_MAX == 14000
ANCHOR_EXCLUSION_RADIUS == 1300
ANCHOR_EXCLUSION_PROBE_FORCE == 80
ANCHOR_EXCLUSION_WORLD_FORCE == 220
HELIOS_GEL_NEIGHBOR_RADIUS == 2200
HELIOS_GEL_REST_DISTANCE == 1100
HELIOS_GEL_RECOMBINE_GAIN == 60
HELIOS_GEL_SNAP_GAIN == 30
HELIOS_GEL_VISCOSITY == 100
HELIOS_GEL_SURFACE_TENSION == 12
HELIOS_GEL_MAX_STEP == 350
HELIOS_GEL_RESIST_RADIUS == 950
HELIOS_GEL_RESIST_GAIN == 300
HELIOS_POSTCAP_SPRING_DAMP == 2200
WORLD_MASS_MIN == 7500
WORLD_MASS_MAX == 17000
WORLD_INITIAL_SPEED_MIN == 30
WORLD_INITIAL_SPEED_MAX == 120
WORLD_GRAVITY_GAIN == 75
WORLD_REPEL_RADIUS == 1600
WORLD_REPEL_GAIN == 110
WORLD_COLLISION_FRICTION == 1400
WORLD_SNAP_LOCK_RADIUS == 700
WORLD_SNAP_LOCK_REST_DISTANCE == 680
WORLD_SNAP_LOCK_GAIN == 200
WORLD_SNAP_LOCK_DAMP == 2000
WORLD_SNAP_LOCK_TICKS == 8
WORLD_SEPARATION_IMPULSE == 300
WORLD_SEPARATION_SWERVE == 100
WORLD_DRAG == 9880
WORLD_MIN_SPEED == 80
WORLD_MIN_SPEED_KICK == 10
WORLD_SPEED_CAP == 750
ORIGIN_CLUSTER_TETHER_GAIN == 320
ORIGIN_CLUSTER_TETHER_DAMP == 1400
ORIGIN_CLUSTER_TETHER_MAX_FORCE == 300
ORIGIN_CLUSTER_RELEASE_TICKS == 720
ORIGIN_CLUSTER_GROUP_PULL_GAIN == 120
ORIGIN_CLUSTER_GROUP_PULL_MAX == 220
PARTICLE_COLLAPSE_PULL_GAIN == 360
PARTICLE_COLLAPSE_SPIRAL_GAIN == 120
PARTICLE_COLLAPSE_DAMPING == 9000
PARTICLE_COLLAPSE_CORE_RADIUS == 600

\* params.maxInvariants (engine.ts:107)
MaxInvariants == 150
\* SIM_STEP = 0.008 (Canvas.tsx:111), the dt every caller passes
SIM_STEP == 80
\* CONSTITUTION_HASH (engine.ts:9)
CONSTITUTION_HASH == "constitutional-field-v2"

\* Scaled-down population sizes.  The program has HELIOS_LATTICE_WORLD_CAP = 64
\* (stagePresets.ts:34) and TARGET_PARTICLES = 324 (stagePresets.ts:35); the
\* model keeps the code that uses them and runs it with smaller populations.
HELIOS_LATTICE_WORLD_CAP == 2
TARGET_PARTICLES == 48

\* ------------------------------------------------------------------------
\* Transcendental functions, tabulated
\* ------------------------------------------------------------------------
\* exp(-k/4) for k = 0..32
ExpTable ==
  <<10000, 7788, 6065, 4724, 3679, 2865, 2231, 1738, 1353, 1054, 821, 639, 498,
    388, 302, 235, 183, 143, 111, 87, 67, 52, 41, 32, 25, 19, 15, 12, 9, 7, 6, 4, 3>>

\* Math.exp(-z) for z >= 0, linear between the table's knots
ExpNeg(z) ==
  IF IsNaN(z) THEN NaN
  ELSE IF z <= 0 THEN U
  ELSE IF z >= 8 * U THEN 0
  ELSE LET k == z \div 2500
           r == z % 2500
       IN ExpTable[k + 1] - Quot((ExpTable[k + 1] - ExpTable[k + 2]) * r, 2500)

\* cos(2 pi k / 16) for k = 0..15
CosTable ==
  <<10000, 9239, 7071, 3827, 0, -3827, -7071, -9239, -10000, -9239, -7071, -3827,
    0, 3827, 7071, 9239>>

\* Math.cos(u * 2 pi) and Math.sin(u * 2 pi) for a unit fraction u in [0, U)
CosTurn(u) == CosTable[(((u * 16) \div U) % 16) + 1]
SinTurn(u) == CosTable[((((u * 16) \div U) + 12) % 16) + 1]

\* -p * log2(p) for p = k/16, k = 0..16
EntropyTable ==
  <<0, 2500, 3750, 4528, 5000, 5244, 5306, 5218, 5000, 4669, 4238, 3716, 3113,
    2434, 1686, 873, 0>>

\* -p * Math.log2(p) for p in [0, 1], linear between the table's knots
EntropyTerm(p) ==
  IF IsNaN(p) THEN NaN
  ELSE IF p <= 0 \/ p >= U THEN 0
  ELSE LET k == p \div 625
           r == p % 625
       IN EntropyTable[k + 1] + Quot((EntropyTable[k + 2] - EntropyTable[k + 1]) * r, 625)

\* Math.log2(max(2, n)) for a small count n
Log2Count(n) ==
  IF n <= 2 THEN 10000 ELSE IF n = 3 THEN 15850 ELSE IF n = 4 THEN 20000
  ELSE IF n = 5 THEN 23219 ELSE IF n = 6 THEN 25850 ELSE IF n = 7 THEN 28074
  ELSE 30000

\* ------------------------------------------------------------------------
\* Deterministic generator (stagePresets.ts:83-98)
\* ------------------------------------------------------------------------
\* pairKey: the unordered pair of two ids
pairKey(a, b) == IF a < b THEN <<a, b>> ELSE <<b, a>>

\* seededUnit: a pure function of (seed, salt) into [0, 1).  The program takes
\* the fractional part of sin(seed * 12.9898 + salt * 78.233) * 43758.5453; the
\* model mixes the same two arguments with integer congruences.
seededUnit(seed, salt) ==
  LET a == ((seed % 9973) * 1299 + (salt % 99991) * 7823) % 1000003
      b == ((a % 65521) * 2053 + 13849) % 1000003
  IN b % U

\* idSalt: a hash of the id below 1000003
idSalt(id) == (id * 31 + 7) % 1000003

\* ------------------------------------------------------------------------
\* Entities, anchors, registry (state/types.ts, state/anchors.ts, registry.ts)
\* ------------------------------------------------------------------------
AnchorName ==
  <<"B", "Ci", "B-y", "Ci-y", "B-r90", "Ci-r90", "B-y-r90", "Ci-y-r90">>

USE_EXTENDED_ANCHORS == TRUE
USE_R90_ANCHORS == TRUE
\* 0.5 / Math.sqrt(2)
Diagonal == 3536

\* the baseline anchor set, as with USE_EXTENDED_ANCHORS switched off
baselineAnchors ==
  << [id |-> 1, position |-> <<-5000, 0>>, strength |-> U],
     [id |-> 2, position |-> <<5000, 0>>, strength |-> U] >>

\* getConfiguredAnchors: id, position, strength
getConfiguredAnchors ==
  LET base == << [id |-> 1, position |-> <<-5000, 0>>, strength |-> U],
                 [id |-> 2, position |-> <<5000, 0>>, strength |-> U] >>
      r90 == << [id |-> 5, position |-> <<0 - Diagonal, 0 - Diagonal>>, strength |-> U],
                [id |-> 6, position |-> <<Diagonal, 0 - Diagonal>>, strength |-> U],
                [id |-> 7, position |-> <<Diagonal, Diagonal>>, strength |-> U],
                [id |-> 8, position |-> <<0 - Diagonal, Diagonal>>, strength |-> U] >>
  IN IF ~USE_EXTENDED_ANCHORS THEN base
     ELSE base \o << [id |-> 3, position |-> <<0, -5000>>, strength |-> U],
                     [id |-> 4, position |-> <<0, 5000>>, strength |-> U] >>
               \o (IF USE_R90_ANCHORS THEN r90 ELSE << >>)

\* a SimInvariant; fields the constructor leaves out are NaN / NoTick / NoId
MkInvariant(id, position, vx, vy, mass, strength, dynamic, energy, stability) ==
  [id |-> id, position |-> position, vx |-> vx, vy |-> vy, mass |-> mass,
   strength |-> strength, dynamic |-> dynamic, energy |-> energy,
   stability |-> stability, distressUntilTick |-> NoTick,
   originClusterId |-> NoId, originClusterOffset |-> <<0, 0>>]

\* createAnchor (engine.ts:27-36): no vx, vy, mass
createAnchor(id, position) ==
  MkInvariant(id, position, NaN, NaN, NaN, U, FALSE, 0, U)

\* dynamicInvariants (sim/math.ts:78-80)
dynamicInvariants(s) == SelectSeq(s.invariants, LAMBDA inv : inv.dynamic)

\* createRegistry
createRegistry == << >>

HasEntry(registry, id) == \E i \in DOMAIN registry : registry[i].id = id
EntryIndex(registry, id) == CHOOSE i \in DOMAIN registry : registry[i].id = id

\* registerBirth: entries is keyed by id, kept here in insertion order.
\* positionHistory holds references to the entity's own position array (the
\* array is pushed, not copied), so the model keeps their number.
registerBirth(registry, inv, tick, lineageParentIds) ==
  IF HasEntry(registry, inv.id) THEN registry
  ELSE Append(registry,
         [id |-> inv.id, birthTick |-> tick, deathTick |-> NoTick,
          lineageParentIds |-> lineageParentIds,
          energyHistory |-> <<inv.energy>>, positionHistory |-> 1,
          peakStrength |-> inv.strength, kills |-> 0, territoryWins |-> 0])

\* seals the entry with the tick before the one the event carries
registerDeathEarly(registry, id, tick) ==
  IF ~HasEntry(registry, id) THEN registry
  ELSE LET i == EntryIndex(registry, id)
       IN IF registry[i].deathTick # NoTick THEN registry
          ELSE [registry EXCEPT ![i].deathTick = tick - 1]

\* the entry left without a death tick
LeaveOpen(registry, id, tick) == registry

registerDeath(registry, id, tick) ==
  IF ~HasEntry(registry, id) THEN registry
  ELSE LET i == EntryIndex(registry, id)
       IN IF registry[i].deathTick # NoTick THEN registry
          ELSE [registry EXCEPT ![i].deathTick = tick]

HISTORY_LIMIT == 1200

sampleInvariant(registry, inv) ==
  IF ~HasEntry(registry, inv.id) THEN registry
  ELSE LET i == EntryIndex(registry, inv.id)
           e == registry[i]
           eh == IF Len(e.energyHistory) > HISTORY_LIMIT THEN Tail(e.energyHistory)
                 ELSE e.energyHistory
           ph == IF e.positionHistory > HISTORY_LIMIT THEN e.positionHistory - 1
                 ELSE e.positionHistory
       IN [registry EXCEPT ![i] =
             [e EXCEPT !.energyHistory = Append(eh, inv.energy),
                       !.positionHistory = ph + 1,
                       !.peakStrength = MathMax(e.peakStrength, inv.strength)]]

registerWin(registry, winnerId) ==
  IF ~HasEntry(registry, winnerId) THEN registry
  ELSE LET i == EntryIndex(registry, winnerId)
       IN [registry EXCEPT ![i].kills = @ + 1, ![i].territoryWins = @ + 1]



\* ------------------------------------------------------------------------
\* Events (events/types.ts, operators/types.ts)
\* ------------------------------------------------------------------------
\* event(type, partial); emit stamps the tick (engine.ts:110-113)
event(type, invariantId, relatedIds, reason) ==
  [type |-> type, invariantId |-> invariantId, relatedIds |-> relatedIds,
   reason |-> reason]

emit(s, partialEvent) ==
  [s EXCEPT !.events = Append(@,
     [type |-> partialEvent.type, tick |-> s.globals.tick,
      invariantId |-> partialEvent.invariantId,
      relatedIds |-> partialEvent.relatedIds, reason |-> partialEvent.reason])]

\* ------------------------------------------------------------------------
\* createSimulationState (engine.ts:38-75)
\* ------------------------------------------------------------------------
\* The constructor sets tick, time, seed, budget, domainRadius,
\* constitutionHash and energyEnabled; regulatorIntegral and the viewport
\* fields are not set (undefined), nor is metrics.alignmentScore.
createSimulationState(seed) ==
  LET anchors == <<createAnchor(1, <<-5000, 0>>), createAnchor(2, <<5000, 0>>)>>
      r1 == registerBirth(createRegistry, anchors[1], 0, << >>)
      r2 == registerBirth(r1, anchors[2], 0, << >>)
  IN [anchors |-> anchors,
      invariants |-> anchors,
      probes |-> << >>,
      basins |-> << >>,
      globals |-> [tick |-> 0, time |-> 0, seed |-> seed, budget |-> 3000,
                   regulatorIntegral |-> NaN, viewportMinPx |-> NaN,
                   worldOverflow |-> NaN, worldHalfW |-> NaN, worldHalfH |-> NaN,
                   domainRadius |-> U, constitutionHash |-> CONSTITUTION_HASH,
                   energyEnabled |-> FALSE],
      registry |-> r2,
      events |-> << >>,
      metrics |-> [totalEnergy |-> 0, budget |-> 3000, conservedDelta |-> -3000,
                   livingInvariants |-> 0, entropySpread |-> 0,
                   dominanceIndex |-> 0, basinOccupancyStability |-> 0,
                   alignmentScore |-> NaN]]

\* ------------------------------------------------------------------------
\* Scalar fields and gradients (engine.ts:11-25, sim/math.ts:3-36)
\* ------------------------------------------------------------------------
\* fields.density: exp(-(x*x + y*y))
fieldsDensity(coords) ==
  ExpNeg(Add(Mul(coords[1], coords[1]), Mul(coords[2], coords[2])))

\* fields.energy is a smooth oscillating potential built from sin, cos and
\* atan2 of the position and the time.  The model stands in for it with a
\* potential that has the same role for the probes: it has minima (wells) the
\* probes descend into, E = |coords - nearest well|^2.
Wells == << <<2000, 1200>>, <<-2000, -1200>> >>

WellDistance2(coords, w) ==
  Mul(coords[1] - w[1], coords[1] - w[1]) + Mul(coords[2] - w[2], coords[2] - w[2])

fieldsEnergy(coords, t) ==
  IF IsNaN(coords[1]) \/ IsNaN(coords[2]) THEN NaN
  ELSE IF WellDistance2(coords, Wells[1]) <= WellDistance2(coords, Wells[2])
  THEN WellDistance2(coords, Wells[1])
  ELSE WellDistance2(coords, Wells[2])

\* the term one invariant adds to the density at coords (math.ts:6-12)
Influence(inv, coords) ==
  Mul(IF inv.dynamic THEN inv.strength ELSE Scale(inv.strength, 3, 2),
      ExpNeg(Scale(Hypot(Sub(inv.position[1], coords[1]), Sub(inv.position[2], coords[2])),
                   4, 1)))

\* for (const inv of state.invariants) base += influence * exp(-dist * 4)
DensitySum(invs, coords, k, base) ==
  ForEach(k, Len(invs), base, LAMBDA sum, i : Add(sum, Influence(invs[i], coords)))

computeDensity(s, coords) == DensitySum(s.invariants, coords, 1, fieldsDensity(coords))

computeEnergy(s, coords) ==
  IF ~s.globals.energyEnabled THEN 0 ELSE fieldsEnergy(coords, s.globals.time)

\* eps = 0.001
GradEps == 10

\* [(ex - e) / eps, (ey - e) / eps] of the samples <<e, ex, ey>>
ForwardDifference(e) ==
  <<Div(Sub(e[2], e[1]), GradEps), Div(Sub(e[3], e[1]), GradEps)>>

computeEnergyGradient(s, coords) ==
  LetIn(<<computeEnergy(s, coords),
          computeEnergy(s, <<Add(coords[1], GradEps), coords[2]>>),
          computeEnergy(s, <<coords[1], Add(coords[2], GradEps)>>)>>, ForwardDifference)

computeDensityGradient(s, coords) ==
  LetIn(<<computeDensity(s, coords),
          computeDensity(s, <<Add(coords[1], GradEps), coords[2]>>),
          computeDensity(s, <<coords[1], Add(coords[2], GradEps)>>)>>, ForwardDifference)

\* ------------------------------------------------------------------------
\* clusterPoints (sim/math.ts:44-76)
\* ------------------------------------------------------------------------
\* the running best of the inner loop: [index, distance], index 0 for none
NearerCluster(best, i, distance, radius) ==
  IF Lt(distance, radius) /\ (best.index = 0 \/ Lt(distance, best.distance))
  THEN [index |-> i, distance |-> distance]
  ELSE best

ClusterDistance(c, point) ==
  Hypot(Sub(point.x, Scale(c.xSum, 1, c.count)), Sub(point.y, Scale(c.ySum, 1, c.count)))

\* index of the nearest cluster centre within radius (first wins on ties), 0 if none
NearestCluster(clusters, point, radius) ==
  ForEach(1, Len(clusters), [index |-> 0, distance |-> 0],
          LAMBDA best, i :
            NearerCluster(best, i, ClusterDistance(clusters[i], point), radius)).index

\* the point joins cluster bestIndex, or opens a new cluster
AddPoint(clusters, point, bestIndex) ==
  IF bestIndex = 0
  THEN Append(clusters, [xSum |-> point.x, ySum |-> point.y, count |-> 1])
  ELSE [clusters EXCEPT ![bestIndex] =
          [xSum |-> Add(@.xSum, point.x), ySum |-> Add(@.ySum, point.y),
           count |-> @.count + 1]]

\* for (const point of points): the clusters after every point has joined one
ClusterFold(points, radius) ==
  ForEach(1, Len(points), << >>,
          LAMBDA clusters, k :
            AddPoint(clusters, points[k], NearestCluster(clusters, points[k], radius)))

ClusterCentre(c) ==
  [x |-> Scale(c.xSum, 1, c.count), y |-> Scale(c.ySum, 1, c.count), count |-> c.count]

MapClusters(clusters) == Strict([i \in DOMAIN clusters |-> ClusterCentre(clusters[i])])

clusterPoints(points, radius) == MapClusters(ClusterFold(points, radius))

\* ------------------------------------------------------------------------
\* Helpers of the operators (stagePresets.ts:100-234)
\* ------------------------------------------------------------------------
\* dt * 60
DtNorm(dt) == dt * 60

MkProbe(px, py, mass) ==
  [x |-> px, y |-> py, prevX |-> px, prevY |-> py, vx |-> 0, vy |-> 0,
   mass |-> mass, speed |-> 0, age |-> 0, trail |-> 1]

ProbeAround(origin, radius, theta, mass) ==
  MkProbe(Add(origin[1], Mul(CosTurn(theta), radius)),
          Add(origin[2], Mul(SinTurn(theta), radius)), mass)

\* Math.min(localDomainRadius, (RESPAWN_RADIUS_PX * 2) / viewportMin);
\* viewportMinPx is a pixel count
RespawnRadiusWorld(g) ==
  MathMin(Add(MathMin(g.worldHalfW, g.worldHalfH), g.worldOverflow),
          IF IsNaN(g.viewportMinPx) THEN NaN
          ELSE Quot(RESPAWN_RADIUS_PX * 2 * U, MathMax(1, g.viewportMinPx)))

\* the position of the dynamic entity a probe respawns around, the origin if
\* there is none (lines 105-115)
SpawnOrigin(g, spawned, salt) ==
  IF Len(spawned) = 0 THEN <<0, 0>>
  ELSE IF Quot(seededUnit(g.seed, g.tick * 113 + salt * 17) * Len(spawned), U)
          > Len(spawned) - 1
  THEN spawned[Len(spawned)].position
  ELSE spawned[Quot(seededUnit(g.seed, g.tick * 113 + salt * 17) * Len(spawned), U) + 1].position

\* randomProbe (stagePresets.ts:100-135).
\* trail is the number of points held (the points themselves are only drawn).
randomProbe(s, salt) ==
  ProbeAround(SpawnOrigin(s.globals, dynamicInvariants(s), salt),
              Mul(MathSqrt(seededUnit(s.globals.seed, s.globals.tick * 131 + salt * 29)),
                  RespawnRadiusWorld(s.globals)),
              seededUnit(s.globals.seed, s.globals.tick * 149 + salt * 31),
              6000 + Scale(seededUnit(s.globals.seed, s.globals.tick * 173 + salt * 37), 16, 10))

clamp01(value) == MathMax(0, MathMin(U, value))

\* the running best of nearestSupportPoint's loop; distance NaN stands for
\* +Infinity
NearerPoint(best, position, dist) ==
  IF IsFinite(dist) /\ (IsNaN(best.distance) \/ dist < best.distance)
  THEN [point |-> position, distance |-> dist]
  ELSE best

\* for (const anchor of state.anchors) (lines 143-151)
NearestAnchor(anchors, x, y) ==
  ForEach(1, Len(anchors), [point |-> <<0, 0>>, distance |-> NaN],
          LAMBDA best, k :
            NearerPoint(best, anchors[k].position,
                        Hypot(Sub(anchors[k].position[1], x),
                              Sub(anchors[k].position[2], y))))

OrOrigin(best, x, y) ==
  IF IsNaN(best.distance) THEN [point |-> <<0, 0>>, distance |-> Hypot(x, y)] ELSE best

nearestSupportPoint(s, x, y) ==
  OrOrigin(NearestAnchor(s.anchors, x, y), x, y)

\* the candidates the walk links to `current` (lines 178-188)
Linked(dynamics, visited, current) ==
  SelectSeq(dynamics, LAMBDA c :
    /\ c.id \notin visited
    /\ Le(Hypot(Sub(c.position[1], current.position[1]),
                Sub(c.position[2], current.position[2])),
          CLUSTER_LINK_RADIUS))

RECURSIVE ClusterWalk(_, _, _, _)
\* the breadth-first walk of dynamicClusters: members of one cluster, as ids
ClusterWalk(dynamics, visited, queue, members) ==
  IF queue = << >> THEN [members |-> members, visited |-> visited]
  ELSE ClusterWalk(dynamics,
                   visited \cup {c.id : c \in Range(Linked(dynamics, visited, Head(queue)))},
                   Tail(queue) \o Linked(dynamics, visited, Head(queue)),
                   Append(members, Head(queue).id))

RECURSIVE ClusterRoots(_, _, _, _)
WalkedRoot(dynamics, i, w, clusters) ==
  ClusterRoots(dynamics, i + 1, w.visited, Append(clusters, w.members))

ClusterRoots(dynamics, i, visited, clusters) ==
  IF i > Len(dynamics) THEN clusters
  ELSE IF dynamics[i].id \in visited THEN ClusterRoots(dynamics, i + 1, visited, clusters)
  ELSE WalkedRoot(dynamics, i,
         ClusterWalk(dynamics, visited \cup {dynamics[i].id}, <<dynamics[i]>>, << >>),
         clusters)

\* dynamicClusters: the connected components, each a sequence of ids
dynamicClusters(s) == ClusterRoots(dynamicInvariants(s), 1, {}, << >>)

\* counts the clusters of worlds where the code counts the worlds
dynamicClusterCount(s) == Len(dynamicClusters(s))

dynamicWorldCount(s) == Len(dynamicInvariants(s))

\* one anchor's push on the point (x, y), added to the force f (lines 208-215)
AddExclusion(f, dx, dy, dist, gain, dtNorm) ==
  IF dist >= ANCHOR_EXCLUSION_RADIUS THEN f
  ELSE <<Add(f[1], Mul(Div(dx, dist),
                       Mul(Mul(Div(ANCHOR_EXCLUSION_RADIUS - dist, ANCHOR_EXCLUSION_RADIUS),
                               gain), dtNorm))),
         Add(f[2], Mul(Div(dy, dist),
                       Mul(Mul(Div(ANCHOR_EXCLUSION_RADIUS - dist, ANCHOR_EXCLUSION_RADIUS),
                               gain), dtNorm)))>>

\* for (const anchor of state.anchors) (lines 203-216)
ExclusionSum(anchors, x, y, gain, dtNorm) ==
  ForEach(1, Len(anchors), <<0, 0>>,
          LAMBDA f, k :
            AddExclusion(f, Sub(x, anchors[k].position[1]), Sub(y, anchors[k].position[2]),
                         OrOne(Hypot(Sub(x, anchors[k].position[1]),
                                     Sub(y, anchors[k].position[2]))),
                         gain, dtNorm))

anchorExclusionForce(s, x, y, gain, dtNorm) ==
  ExclusionSum(s.anchors, x, y, gain, dtNorm)

\* how lost a point is: far from support, or near the edge of the domain
Lostness(supportLoss, edgeLoss) == clamp01(MathMax(supportLoss, edgeLoss))

EdgeLoss(s, x, y) ==
  clamp01(Div(Sub(Div(Hypot(x, y), MathMax(10, s.globals.domainRadius)),
                  SANCTUARY_EDGE_SOFT_START),
              U - SANCTUARY_EDGE_SOFT_START))

\* the pull toward the nearest support point (lines 229-233)
PullToward(tx, ty, dist, pull) == <<Mul(Div(tx, dist), pull), Mul(Div(ty, dist), pull)>>

SanctuaryPull(p, nearest, lostness, dt) ==
  IF Le(lostness, 0) THEN <<0, 0>>
  ELSE PullToward(Sub(nearest.point[1], p.x), Sub(nearest.point[2], p.y),
                  OrOne(Hypot(Sub(nearest.point[1], p.x), Sub(nearest.point[2], p.y))),
                  Mul(Add(SANCTUARY_BASE_PULL,
                          Mul(SANCTUARY_MAX_PULL - SANCTUARY_BASE_PULL, lostness)),
                      DtNorm(dt)))

ProbeLostness(s, p, nearest) ==
  Lostness(clamp01(Div(Sub(nearest.distance, SANCTUARY_SUPPORT_RADIUS), 8500)),
           EdgeLoss(s, p.x, p.y))

SanctuaryToward(s, p, nearest, dt) ==
  LetIn(ProbeLostness(s, p, nearest), LAMBDA lostness : SanctuaryPull(p, nearest, lostness, dt))

probeSanctuaryForce(s, p, dt) ==
  LetIn(nearestSupportPoint(s, p.x, p.y), LAMBDA nearest : SanctuaryToward(s, p, nearest, dt))

ProbesWithin(s, position, radius) ==
  Cardinality({i \in DOMAIN s.probes :
     Lt(Hypot(Sub(s.probes[i].x, position[1]), Sub(s.probes[i].y, position[2])), radius)})

\* apply F to every dynamic entity, in place (for (const inv of dynamics) ...)
MapDynamics(s, F(_)) ==
  [s EXCEPT !.invariants =
     Strict([i \in DOMAIN @ |-> IF @[i].dynamic THEN F(@[i]) ELSE @[i]])]

\* sanctuaryFieldOperator (stagePresets.ts:236-260)
sanctuaryFieldOperator(s, dt) ==
  LET Pull(inv) ==
        LET nearest == nearestSupportPoint(s, inv.position[1], inv.position[2])
            intake == ProbesWithin(s, inv.position, 3200)
            radial == Div(Hypot(inv.position[1], inv.position[2]),
                          MathMax(10, s.globals.domainRadius))
            supportLoss == clamp01(Div(Sub(nearest.distance, SANCTUARY_SUPPORT_RADIUS), 9000))
            intakeLoss == clamp01(U - Quot(intake * U, 10))
            edgeLoss == clamp01(Div(Sub(radial, SANCTUARY_EDGE_SOFT_START),
                                    U - SANCTUARY_EDGE_SOFT_START))
            lostness == clamp01(MathMax(MathMax(supportLoss, Scale(intakeLoss, 3, 4)),
                                        edgeLoss))
            lerp == Add(SANCTUARY_INV_BASE_PULL,
                        Mul(SANCTUARY_INV_MAX_PULL - SANCTUARY_INV_BASE_PULL, lostness))
            x1 == Add(Mul(inv.position[1], Sub(U, lerp)), Mul(nearest.point[1], lerp))
            y1 == Add(Mul(inv.position[2], Sub(U, lerp)), Mul(nearest.point[2], lerp))
            exclusion == anchorExclusionForce(s, x1, y1, ANCHOR_EXCLUSION_WORLD_FORCE, U)
        IN IF Le(lostness, 0) THEN inv
           ELSE [inv EXCEPT !.position = <<Add(x1, exclusion[1]), Add(y1, exclusion[2])>>]
  IN MapDynamics(s, Pull)

\* ------------------------------------------------------------------------
\* In-place updates of the dynamic entities
\* ------------------------------------------------------------------------
DynRank(invs, i) == Cardinality({j \in 1..i : invs[j].dynamic})

\* a write-back over the first entities, anchors or not
WriteFromTop(s, dyn) ==
  [s EXCEPT !.invariants =
     Strict([i \in DOMAIN @ |-> IF i <= Len(dyn) THEN dyn[i] ELSE @[i]])]

\* write back the entities of dynamicInvariants(s) after a loop mutated them
WriteDynamics(s, dyn) ==
  [s EXCEPT !.invariants =
     Strict([i \in DOMAIN @ |-> IF @[i].dynamic THEN dyn[DynRank(@, i)] ELSE @[i]])]

\* ------------------------------------------------------------------------
\* distressLifecycleOperator (stagePresets.ts:262-291)
\* ------------------------------------------------------------------------
\* a deadline without the grace window
DistressDeadlineNow(tick) == tick

\* the deadline set when distress begins (line 276)
DistressDeadline(tick) == tick + DISTRESS_GRACE_TICKS

\* the test that clears distress (line 266)
Recovered(inv) == Ge(inv.energy, DISTRESS_RECOVERY_THRESHOLD)

\* the test that removes an entity in deficit (line 280)
DeadlineReached(tick, inv) == tick >= inv.distressUntilTick

\* every entity in deficit taken for one whose distress begins
AlwaysStarting(inv) == TRUE

\* distress begins for an entity that has no deadline (line 275)
Starting(inv) == inv.distressUntilTick = NoTick

RECURSIVE DistressLoop(_, _, _, _)
\* acc = [dyn, events, deadIds]; one pass over the dynamic entities
DistressLoop(tick, dyn, k, acc) ==
  IF k > Len(dyn) THEN acc
  ELSE LET inv == dyn[k]
       IN IF Recovered(inv)
          THEN IF inv.distressUntilTick # NoTick
               THEN DistressLoop(tick, dyn, k + 1,
                      [acc EXCEPT
                         !.dyn[k].distressUntilTick = NoTick,
                         !.events = Append(@, event("RECOVERY", inv.id, << >>,
                              "energy recovered above distress threshold"))])
               ELSE DistressLoop(tick, dyn, k + 1, acc)
          ELSE IF Lt(inv.energy, 0)
          THEN LET starting == Starting(inv)
                   inv1 == IF starting
                           THEN [inv EXCEPT !.distressUntilTick = DistressDeadline(tick)]
                           ELSE inv
                   ev1 == IF starting
                          THEN <<event("DISTRESS", inv.id, << >>,
                                   "energy deficit; sanctuary grace window active")>>
                          ELSE << >>
                   dies == DeadlineReached(tick, inv1)
                   ev2 == IF dies
                          THEN <<event("STARVATION", inv.id, << >>, ""),
                                 event("DEATH", inv.id, << >>, "distress timeout")>>
                          ELSE << >>
               IN DistressLoop(tick, dyn, k + 1,
                    [dyn |-> [acc.dyn EXCEPT ![k] = inv1],
                     events |-> acc.events \o ev1 \o ev2,
                     deadIds |-> IF dies THEN acc.deadIds \cup {inv.id} ELSE acc.deadIds])
          ELSE DistressLoop(tick, dyn, k + 1, acc)

EmitAll(s, evs, k) == ForEach(k, Len(evs), s, LAMBDA acc, i : emit(acc, evs[i]))

\* a purge that leaves the dead among the invariants
KeepDead(invariants, deadIds) == invariants

\* state.invariants.filter((inv) => !inv.dynamic || !deadIds.has(inv.id)) (line 289)
PurgeDead(invariants, deadIds) ==
  SelectSeq(invariants, LAMBDA inv : ~inv.dynamic \/ inv.id \notin deadIds)

distressLifecycleOperator(s) ==
  LET dyn == dynamicInvariants(s)
      r == DistressLoop(s.globals.tick, dyn, 1,
             [dyn |-> dyn, events |-> << >>, deadIds |-> {}])
      s1 == EmitAll(WriteDynamics(s, r.dyn), r.events, 1)
  IN IF r.deadIds # {}
     THEN [s1 EXCEPT !.invariants = PurgeDead(@, r.deadIds)]
     ELSE s1

\* ------------------------------------------------------------------------
\* competitiveEcosystemOperator (stagePresets.ts:897-931)
\* ------------------------------------------------------------------------
SUPPRESSION_RADIUS == 2500
SUPPRESSION_PENALTY == 80
CAPTURE_RADIUS == 3000
INTAKE_GAIN == 10
ENERGY_DECAY == 20
S_MAX == 15000
STABILITY_SCALE == 8000

\* stability = max(0, min(1, energy / 0.8))
StabilityOf(energy) == MathMax(0, MathMin(U, Div(energy, STABILITY_SCALE)))

\* strength = 1.5 * (e / (1 + e)), the saturating law (lines 562, 954, 1009)
SaturatingStrength(e) == Mul(S_MAX, Div(e, Add(U, e)))

\* strength = 0.3 + energy * 2 (line 927)
EcosystemStrength(energy) == Add(3000, Scale(energy, 2, 1))

\* the comparison turned round: the entity with more energy is penalised
FirstLoses(invA, invB) == Le(invA.energy, invB.energy)

\* invA.energy >= invB.energy (line 914): invB is penalised, else invA
FirstWins(invA, invB) == Ge(invA.energy, invB.energy)

RECURSIVE SuppressPairs(_, _, _)
\* the pair loop, i < j in the order of dynamics; acc = [dyn, events]
SuppressPairs(i, j, acc) ==
  LET n == Len(acc.dyn)
  IN IF i > n THEN acc
     ELSE IF j > n THEN SuppressPairs(i + 1, i + 2, acc)
     ELSE LET invA == acc.dyn[i]
              invB == acc.dyn[j]
              dist == Hypot(Sub(invA.position[1], invB.position[1]),
                            Sub(invA.position[2], invB.position[2]))
          IN IF Ge(dist, SUPPRESSION_RADIUS) THEN SuppressPairs(i, j + 1, acc)
             ELSE IF FirstWins(invA, invB)
             THEN SuppressPairs(i, j + 1,
                    [dyn |-> [acc.dyn EXCEPT ![j].energy = Sub(@, SUPPRESSION_PENALTY)],
                     events |-> Append(acc.events,
                                  event("SUPPRESSED", invB.id, <<invA.id>>, ""))])
             ELSE SuppressPairs(i, j + 1,
                    [dyn |-> [acc.dyn EXCEPT ![i].energy = Sub(@, SUPPRESSION_PENALTY)],
                     events |-> Append(acc.events,
                                  event("SUPPRESSED", invA.id, <<invB.id>>, ""))])

competitiveEcosystemOperator(s) ==
  LET dynamics == dynamicInvariants(s)
      intake == Strict([k \in DOMAIN dynamics |-> ProbesWithin(s, dynamics[k].position, CAPTURE_RADIUS)])
      r == SuppressPairs(1, 2, [dyn |-> dynamics, events |-> << >>])
      Settle(k) ==
        LET inv == r.dyn[k]
            energy == Sub(Add(inv.energy, intake[k] * INTAKE_GAIN), ENERGY_DECAY)
        IN [inv EXCEPT !.energy = energy,
                       !.strength = EcosystemStrength(energy),
                       !.stability = StabilityOf(energy)]
  IN EmitAll(WriteDynamics(s, Strict([k \in DOMAIN r.dyn |-> Settle(k)])), r.events, 1)

\* ------------------------------------------------------------------------
\* selectionPressureOperator (stagePresets.ts:933-967)
\* ------------------------------------------------------------------------
\* seq.reduce((sum, x) => sum + x, 0), from index k
SumSeq(seq, k) == ForEach(k, Len(seq), 0, LAMBDA sum, i : Add(sum, seq[i]))

\* the probes each entity captures
IntakeOf(s, dynamics) ==
  Strict([k \in DOMAIN dynamics |-> ProbesWithin(s, dynamics[k].position, CAPTURE_RADIUS)])

\* the growth of one entity by its share of the budget (lines 949-955)
Grow(inv, share, budget) ==
  [inv EXCEPT !.energy = Sub(Add(inv.energy, Mul(share, budget)), ENERGY_DECAY),
              !.strength = SaturatingStrength(
                             MathMax(0, Sub(Add(inv.energy, Mul(share, budget)), ENERGY_DECAY))),
              !.stability = StabilityOf(
                              MathMax(0, Sub(Add(inv.energy, Mul(share, budget)), ENERGY_DECAY)))]

GrowAll(dynamics, intake, totalIntake, equalShare, budget) ==
  Strict([k \in DOMAIN dynamics |->
    Grow(dynamics[k],
         Scale(Quot(intake[k] * U, IF totalIntake = 0 THEN 1 ELSE totalIntake), 7, 10)
           + Scale(equalShare, 3, 10),
         budget)])

\* the dominance tax of one entity (lines 961-964)
Tax(inv, dominanceShare) ==
  IF Gt(dominanceShare, 4500)
  THEN [inv EXCEPT !.energy =
          MathMax(0, Sub(inv.energy, Scale(Sub(dominanceShare, 4500), 8, 100)))]
  ELSE inv

TaxAll(grown, totalStrength) ==
  Strict([k \in DOMAIN grown |->
    Tax(grown[k], IF Gt(totalStrength, 0)
                  THEN Div(MathMax(0, grown[k].strength), totalStrength) ELSE 0)])

TaxGrown(s, grown) ==
  WriteDynamics(s, TaxAll(grown,
    SumSeq(Strict([k \in DOMAIN grown |-> MathMax(0, grown[k].strength)]), 1)))

SelectWith(s, dynamics, intake) ==
  TaxGrown(s, GrowAll(dynamics, intake, SumSeq(intake, 1),
                      IF Len(dynamics) > 0 THEN Quot(U, Len(dynamics)) ELSE 0,
                      MathMax(500, s.globals.budget)))

selectionPressureOperator(s) ==
  SelectWith(s, dynamicInvariants(s), IntakeOf(s, dynamicInvariants(s)))

\* ------------------------------------------------------------------------
\* clusterCeilingOperator (stagePresets.ts:528-576)
\* ------------------------------------------------------------------------
GetDyn(s, id) ==
  LET i == CHOOSE i \in DOMAIN s.invariants : s.invariants[i].id = id
  IN s.invariants[i]

SetDyn(s, id, inv) ==
  [s EXCEPT !.invariants = Strict([i \in DOMAIN @ |-> IF @[i].id = id THEN inv ELSE @[i]])]

RECURSIVE CeilingMembers(_, _, _, _, _, _, _)
\* the inner loop over one cluster's members; acc = [s, harvested]
CeilingMembers(members, k, centroidX, centroidY, pressure, dtNorm, acc) ==
  IF k > Len(members) THEN acc
  ELSE LET inv == GetDyn(acc.s, members[k])
           dx == Sub(inv.position[1], centroidX)
           dy == Sub(inv.position[2], centroidY)
           dist == OrOne(Hypot(dx, dy))
           shear == Mul(Mul(DYNAMIC_CLUSTER_SHEAR_GAIN, pressure), dtNorm)
           drain == Mul(Mul(Mul(MathMax(0, inv.energy), DYNAMIC_CLUSTER_DRAIN_GAIN),
                            pressure), dtNorm)
           energy == MathMax(0, Sub(inv.energy, drain))
           inv1 == [inv EXCEPT
                      !.position = <<Add(inv.position[1], Mul(Div(dx, dist), shear)),
                                     Add(inv.position[2], Mul(Div(dy, dist), shear))>>,
                      !.energy = energy,
                      !.strength = SaturatingStrength(energy),
                      !.stability = StabilityOf(energy)]
       IN CeilingMembers(members, k + 1, centroidX, centroidY, pressure, dtNorm,
            [s |-> SetDyn(acc.s, inv.id, inv1),
             harvested |-> Add(acc.harvested, Mul(drain, DYNAMIC_CLUSTER_HARVEST_TO_BUDGET))])

RECURSIVE CeilingClusters(_, _, _, _)
CeilingClusters(clusters, c, dtNorm, acc) ==
  IF c > Len(clusters) THEN acc
  ELSE LET members == clusters[c]
           n == Len(members)
           invs == Strict([k \in DOMAIN members |-> GetDyn(acc.s, members[k])])
           totalEnergy == SumSeq(Strict([k \in DOMAIN invs |-> MathMax(0, invs[k].energy)]), 1)
           energyCeiling == n * DYNAMIC_CLUSTER_ENERGY_PER_NODE_CEILING
           sizePressure ==
             clamp01(Quot((n - DYNAMIC_CLUSTER_SOFT_CAP) * U,
                          IF DYNAMIC_CLUSTER_SIZE_CEILING - DYNAMIC_CLUSTER_SOFT_CAP > 1
                          THEN DYNAMIC_CLUSTER_SIZE_CEILING - DYNAMIC_CLUSTER_SOFT_CAP
                          ELSE 1))
           energyPressure ==
             clamp01(Div(Sub(totalEnergy, energyCeiling), MathMax(10, energyCeiling)))
           pressure == MathMax(sizePressure, energyPressure)
           centroidX == Scale(SumSeq(Strict([k \in DOMAIN invs |-> invs[k].position[1]]), 1), 1, n)
           centroidY == Scale(SumSeq(Strict([k \in DOMAIN invs |-> invs[k].position[2]]), 1), 1, n)
           r == CeilingMembers(members, 1, centroidX, centroidY, pressure, dtNorm, acc)
       IN IF n < 2 \/ Le(pressure, 0) THEN CeilingClusters(clusters, c + 1, dtNorm, acc)
          ELSE CeilingClusters(clusters, c + 1, dtNorm,
                 [s |-> emit(r.s, event("SUPPRESSED", NoId, << >>, "cluster ceiling pressure")),
                  harvested |-> r.harvested])

\* the budget after the harvest (line 574)
\* the harvest added without the cap
Uncapped(budget, harvested) == Add(budget, harvested)

\* Math.min(DYNAMIC_CLUSTER_BUDGET_MAX, state.globals.budget + harvestedBudget) (line 575)
HarvestedBudget(budget, harvested) ==
  MathMin(DYNAMIC_CLUSTER_BUDGET_MAX, Add(budget, harvested))

clusterCeilingOperator(s, dt) ==
  LET r == CeilingClusters(dynamicClusters(s), 1, DtNorm(dt), [s |-> s, harvested |-> 0])
  IN IF Gt(r.harvested, 0)
     THEN [r.s EXCEPT !.globals.budget = HarvestedBudget(@, r.harvested)]
     ELSE r.s

\* ------------------------------------------------------------------------
\* Alignment evaluator (alignment/controller.ts) and metrics (metrics/index.ts)
\* ------------------------------------------------------------------------
points(level) == IF level = "good" THEN U ELSE IF level = "warn" THEN 5000 ELSE 0

classifyConservedDelta(delta) ==
  LET abs == MathAbs(delta)
  IN IF Le(abs, 1000) THEN "good" ELSE IF Le(abs, 4000) THEN "warn" ELSE "critical"

classifyDominance(dominance) ==
  IF Ge(dominance, 4500) /\ Le(dominance, 6500) THEN "good"
  ELSE IF Ge(dominance, 3500) /\ Le(dominance, 8000) THEN "warn"
  ELSE "critical"

classifyEntropy(entropy) ==
  IF Ge(entropy, 5000) THEN "good" ELSE IF Ge(entropy, 3500) THEN "warn" ELSE "critical"

overallLevel(score) ==
  IF score >= 8000 THEN "good" ELSE IF score >= 4500 THEN "warn" ELSE "critical"

evaluateAlignment(metrics) ==
  LET conservedDelta == classifyConservedDelta(metrics.conservedDelta)
      dominance == classifyDominance(metrics.dominanceIndex)
      entropy == classifyEntropy(metrics.entropySpread)
      score == Quot(points(conservedDelta) + points(dominance) + points(entropy), 3)
  IN [score |-> score, overall |-> overallLevel(score),
      conservedDelta |-> conservedDelta, dominance |-> dominance, entropy |-> entropy]

deriveAlignmentControl(diagnostics) ==
  [budgetGainScale |-> IF diagnostics.conservedDelta = "critical" THEN 16500
                       ELSE IF diagnostics.conservedDelta = "warn" THEN 12500 ELSE U,
   deadbandScale |-> IF diagnostics.conservedDelta = "good" THEN 12000 ELSE 9000,
   dominanceTarget |-> 6000,
   dominancePenalty |-> IF diagnostics.dominance = "critical" THEN 1400
                        ELSE IF diagnostics.dominance = "warn" THEN 800 ELSE 400,
   equityBoost |-> IF diagnostics.entropy = "critical" \/ diagnostics.dominance = "critical"
                   THEN 8000
                   ELSE IF diagnostics.entropy = "warn" \/ diagnostics.dominance = "warn"
                   THEN 5500 ELSE 3500]

shannonEntropy(weights) ==
  LET total == SumSeq(weights, 1)
      entropy == SumSeq(Strict([k \in DOMAIN weights |->
                   IF Le(weights[k], 0) THEN 0 ELSE EntropyTerm(Div(weights[k], total))]), 1)
  IN IF Le(total, 0) THEN 0 ELSE Div(entropy, Log2Count(Len(weights)))

RECURSIVE TopSum(_, _)
\* sum of the k largest values of a sequence of finite numbers
TopSum(seq, k) ==
  IF k = 0 \/ seq = << >> THEN 0
  ELSE LET i == CHOOSE i \in DOMAIN seq : \A j \in DOMAIN seq : seq[i] >= seq[j]
           rest == Strict([j \in 1..(Len(seq) - 1) |-> IF j < i THEN seq[j] ELSE seq[j + 1]])
       IN seq[i] + TopSum(rest, k - 1)

computeMetrics(s) ==
  LET livingDynamics == dynamicInvariants(s)
      energies == Strict([k \in DOMAIN livingDynamics |-> MathMax(0, livingDynamics[k].energy)])
      strengths == Strict([k \in DOMAIN livingDynamics |-> MathMax(0, livingDynamics[k].strength)])
      totalEnergy == SumSeq(energies, 1)
      budget == s.globals.budget
      conservedDelta == Sub(totalEnergy, budget)
      totalStrength == SumSeq(strengths, 1)
      dominanceIndex ==
        IF Gt(totalStrength, 0) THEN Div(TopSum(strengths, 3), totalStrength) ELSE 0
      basinStability ==
        IF Len(s.basins) > 0
        THEN Quot(SumSeq(Strict([k \in DOMAIN s.basins |->
                    MathMin(U, Quot(s.basins[k].frames * U, 20))]), 1), Len(s.basins))
        ELSE 0
      core == [totalEnergy |-> totalEnergy, budget |-> budget,
               conservedDelta |-> conservedDelta,
               livingInvariants |-> Len(livingDynamics),
               entropySpread |-> shannonEntropy(strengths),
               dominanceIndex |-> dominanceIndex,
               basinOccupancyStability |-> basinStability, alignmentScore |-> 0]
  IN [core EXCEPT !.alignmentScore = evaluateAlignment(core).score]

\* ------------------------------------------------------------------------
\* budgetRegulatorOperator (stagePresets.ts:969-1022)
\* ------------------------------------------------------------------------
INTEGRAL_LIMIT == 500000
INTEGRAL_DECAY == 9600

\* the anti-windup clamp (line 989)
ClampIntegral(x) == MathMax(0 - INTEGRAL_LIMIT, MathMin(INTEGRAL_LIMIT, x))

\* 1 / (max(0.01, energy) + 0.05)
InverseWeight(inv) == Div(U, Add(MathMax(100, inv.energy), 500))

\* the energies of the entities, floored at 0, summed
PositiveEnergy(dynamics) ==
  SumSeq(Strict([k \in DOMAIN dynamics |-> MathMax(0, dynamics[k].energy)]), 1)

PositiveStrength(dynamics) ==
  SumSeq(Strict([k \in DOMAIN dynamics |-> MathMax(0, dynamics[k].strength)]), 1)

InverseTotal(dynamics) ==
  SumSeq(Strict([k \in DOMAIN dynamics |-> InverseWeight(dynamics[k])]), 1)

\* the entity with its energy set and strength and stability derived from it
WithEnergy(inv, energy) ==
  [inv EXCEPT !.energy = energy,
              !.strength = SaturatingStrength(energy),
              !.stability = StabilityOf(energy)]

\* the budget correction of one entity (lines 1004-1010)
Correct(inv, control, removalShare, additionShare) ==
  WithEnergy(inv,
    IF Ge(control, 0)
    THEN MathMax(0, Sub(inv.energy, Mul(control, removalShare)))
    ELSE MathMax(0, Sub(inv.energy, Mul(control, additionShare))))

CorrectAll(dynamics, control, totalEnergy, inverseTotal, fallbackShare, equityBoost) ==
  Strict([k \in DOMAIN dynamics |->
    Correct(dynamics[k], control,
            IF Gt(totalEnergy, 0)
            THEN Div(MathMax(0, dynamics[k].energy), totalEnergy)
            ELSE fallbackShare,
            Add(Mul(IF Gt(inverseTotal, 0)
                    THEN Div(InverseWeight(dynamics[k]), inverseTotal)
                    ELSE fallbackShare, equityBoost),
                Mul(fallbackShare, U - equityBoost)))])

\* the dominance penalty of one entity (lines 1013-1020)
Penalise(inv, dominanceShare, controlProfile) ==
  IF Le(dominanceShare, controlProfile.dominanceTarget) THEN inv
  ELSE [inv EXCEPT !.energy =
          MathMax(0, Sub(inv.energy,
            Mul(Sub(dominanceShare, controlProfile.dominanceTarget),
                controlProfile.dominancePenalty)))]

PenaliseAll(corrected, totalStrength, controlProfile) ==
  Strict([k \in DOMAIN corrected |->
    Penalise(corrected[k],
             IF Gt(totalStrength, 0)
             THEN Div(MathMax(0, corrected[k].strength), totalStrength) ELSE 0,
             controlProfile)])

\* the correction applied when the error is outside the deadband
Regulate(s, dynamics, totalEnergy, controlProfile, control, integral) ==
  LetIn(CorrectAll(dynamics, control, totalEnergy, InverseTotal(dynamics),
                   Quot(U, Len(dynamics)), controlProfile.equityBoost),
        LAMBDA corrected :
          WriteDynamics([s EXCEPT !.globals.regulatorIntegral = integral],
                        PenaliseAll(corrected, PositiveStrength(corrected), controlProfile)))

\* KP = 0.2 * gain, KI = 0.03 * gain, EPSILON = 0.02 * deadbandScale
Control(controlProfile, error, integral) ==
  Add(Mul(Mul(2000, controlProfile.budgetGainScale), error),
      Mul(Mul(300, controlProfile.budgetGainScale), integral))

RegulateError(s, dt, dynamics, totalEnergy, controlProfile, error, integral) ==
  IF Lt(MathAbs(error), Mul(200, controlProfile.deadbandScale))
  THEN [s EXCEPT !.globals.regulatorIntegral = Mul(@, INTEGRAL_DECAY)]
  ELSE Regulate(s, dynamics, totalEnergy, controlProfile,
                Control(controlProfile, error, integral), integral)

RegulateTotal(s, dt, dynamics, totalEnergy, controlProfile, error) ==
  RegulateError(s, dt, dynamics, totalEnergy, controlProfile, error,
                ClampIntegral(Add(s.globals.regulatorIntegral, Mul(error, dt))))

RegulateDynamics(s, dt, dynamics, totalEnergy) ==
  RegulateTotal(s, dt, dynamics, totalEnergy,
                deriveAlignmentControl(evaluateAlignment(computeMetrics(s))),
                Sub(totalEnergy, s.globals.budget))

budgetRegulatorOperator(s, dt) ==
  IF dynamicWorldCount(s) = 0 THEN s
  ELSE RegulateDynamics(s, dt, dynamicInvariants(s), PositiveEnergy(dynamicInvariants(s)))

\* ------------------------------------------------------------------------
\* basinDetectionOperator (stagePresets.ts:695-818)
\* ------------------------------------------------------------------------
CLUSTER_RADIUS == 1200
BASIN_MIN_COUNT == 8
BASIN_MATCH_RADIUS == 1400

\* the pool left as it is
LeaveProbes(s, probes, target) == probes

\* while (state.probes.length < targetParticles) push(randomProbe(state, length + 1))
FillProbes(s, probes, target) ==
  IF Len(probes) >= target THEN probes
  ELSE probes \o Strict([k \in 1..(target - Len(probes)) |-> randomProbe(s, Len(probes) + k)])

\* state.probes.length = targetParticles
CutProbes(probes, target) ==
  IF Len(probes) > target THEN SubSeq(probes, 1, target) ELSE probes

\* (-gradE - alpha * gradD) * step * massScale, alpha = 0.3 (lines 717-719)
ProbeForce(gradE, gradD, step, massScale) ==
  <<Mul(Mul(Sub(Neg(gradE[1]), Scale(gradD[1], 3, 10)), step), massScale),
    Mul(Mul(Sub(Neg(gradE[2]), Scale(gradD[2], 3, 10)), step), massScale)>>

\* (v + force + sanctuaryForce + anchorExclusion) * damping (lines 730-731)
DampedVelocity(p, force, sanctuaryForce, anchorExclusion, damping) ==
  <<Mul(Add(Add(Add(p.vx, force[1]), sanctuaryForce[1]), anchorExclusion[1]), damping),
    Mul(Add(Add(Add(p.vy, force[2]), sanctuaryForce[2]), anchorExclusion[2]), damping)>>

\* the pull and spiral toward the origin once the lattice is full (lines 733-740)
CollapseVelocity(v, cx, cy, cDist, pull, spiral) ==
  <<Mul(Add(Add(v[1], Mul(Div(cx, cDist), pull)), Mul(Div(Neg(cy), cDist), spiral)),
        PARTICLE_COLLAPSE_DAMPING),
    Mul(Add(Add(v[2], Mul(Div(cy, cDist), pull)), Mul(Div(cx, cDist), spiral)),
        PARTICLE_COLLAPSE_DAMPING)>>

ProbeVelocity(p, v, dt, collapseParticles) ==
  IF collapseParticles
  THEN CollapseVelocity(v, Neg(p.x), Neg(p.y), OrOne(Hypot(Neg(p.x), Neg(p.y))),
                        Mul(PARTICLE_COLLAPSE_PULL_GAIN, DtNorm(dt)),
                        Mul(PARTICLE_COLLAPSE_SPIRAL_GAIN, DtNorm(dt)))
  ELSE v

\* the probe moved by its velocity (lines 711-713, 742-747)
MoveProbe(p, v) ==
  [p EXCEPT !.prevX = p.x, !.prevY = p.y, !.vx = v[1], !.vy = v[2],
            !.x = Add(p.x, v[1]), !.y = Add(p.y, v[2]),
            !.speed = Hypot(v[1], v[2]), !.age = p.age + 1,
            !.trail = IF p.trail + 1 > MAX_PROBE_TRAIL_POINTS
                      THEN MAX_PROBE_TRAIL_POINTS ELSE p.trail + 1]

\* one probe advanced by one explicit-Euler step (lines 700-747);
\* step = max(0.003, dt * 0.6)
Advance(p, gradE, gradD, sanctuaryForce, anchorExclusion, dt, collapseParticles) ==
  MoveProbe(p,
    ProbeVelocity(p,
      DampedVelocity(p,
        ProbeForce(gradE, gradD,
                   IF Scale(dt, 6, 10) > 30 THEN Scale(dt, 6, 10) ELSE 30,
                   Div(U, MathMax(3500, p.mass))),
        sanctuaryForce, anchorExclusion,
        8600 + MathMin(900, Scale(p.mass, 3, 100))),
      dt, collapseParticles))

AdvanceProbe(s, p, dt, collapseParticles) ==
  LetIn(<<computeEnergyGradient(s, <<p.x, p.y>>),
          computeDensityGradient(s, <<p.x, p.y>>),
          probeSanctuaryForce(s, p, dt),
          anchorExclusionForce(s, p.x, p.y, ANCHOR_EXCLUSION_PROBE_FORCE, DtNorm(dt))>>,
        LAMBDA f : Advance(p, f[1], f[2], f[3], f[4], dt, collapseParticles))

OutOfBounds(s, p) ==
  \/ Gt(MathAbs(p.x), Add(s.globals.worldHalfW, s.globals.worldOverflow))
  \/ Gt(MathAbs(p.y), Add(s.globals.worldHalfH, s.globals.worldOverflow))

\* a probe that left the world is replaced in place when respawn is enabled
\* (state.probes[i] = randomProbe(state, i + 1), line 754)
RespawnOrKeep(s, p, k, particleRespawnEnabled) ==
  IF particleRespawnEnabled /\ OutOfBounds(s, p) THEN randomProbe(s, k) ELSE p

\* the probes the loop splices out (lines 755-768); a respawned probe stays
Spliced(s, p, particleRespawnEnabled, collapseParticles) ==
  \/ ~particleRespawnEnabled /\ OutOfBounds(s, p)
  \/ /\ collapseParticles
     /\ ~OutOfBounds(s, p)
     /\ Lt(Hypot(p.x, p.y), PARTICLE_COLLAPSE_CORE_RADIUS)

AdvanceAll(s, probes, dt, collapseParticles) ==
  Strict([k \in DOMAIN probes |-> AdvanceProbe(s, probes[k], dt, collapseParticles)])

\* the loop over state.probes.  Respawn and splice exclude each other
\* (worldCount < cap, worldCount >= cap), so the index i of the program is the
\* position of the probe in the sequence the loop started with.
SettleProbes(s, moved, particleRespawnEnabled, collapseParticles) ==
  IF particleRespawnEnabled
  THEN Strict([k \in DOMAIN moved |-> RespawnOrKeep(s, moved[k], k, particleRespawnEnabled)])
  ELSE SelectSeq(moved, LAMBDA p : ~Spliced(s, p, particleRespawnEnabled, collapseParticles))

ProbeLoop(s, probes, dt, particleRespawnEnabled, collapseParticles) ==
  SettleProbes(s, AdvanceAll(s, probes, dt, collapseParticles),
               particleRespawnEnabled, collapseParticles)

RECURSIVE BestBasin(_, _, _, _, _)
\* index of the nearest basin within the match radius, 0 if none
BestBasin(basins, cluster, k, best, bestDistance) ==
  IF k > Len(basins) THEN best
  ELSE LET distance == Hypot(Sub(cluster.x, basins[k].x), Sub(cluster.y, basins[k].y))
       IN IF Lt(distance, BASIN_MATCH_RADIUS) /\ (best = 0 \/ Lt(distance, bestDistance))
          THEN BestBasin(basins, cluster, k + 1, k, distance)
          ELSE BestBasin(basins, cluster, k + 1, best, bestDistance)

\* a cluster met again: position blended, count replaced, frames raised (802-806)
MatchBasin(basin, cluster) ==
  [basin EXCEPT !.x = Add(Scale(basin.x, 65, 100), Scale(cluster.x, 35, 100)),
                !.y = Add(Scale(basin.y, 65, 100), Scale(cluster.y, 35, 100)),
                !.count = cluster.count,
                !.frames = basin.frames + 1,
                !.matched = TRUE]

\* a decay that forgets the count
DecayFrames(basin) == [basin EXCEPT !.frames = basin.frames - 1]

\* a basin no cluster met (lines 811-814)
DecayBasin(basin) == [basin EXCEPT !.frames = basin.frames - 1, !.count = 0]

\* the filter that keeps a basin (line 817)
BasinSurvives(basin) == basin.frames > 0

RECURSIVE MatchClusters(_, _, _, _)
\* i is the 1-based index of the cluster; the id uses the 0-based one
MatchClusters(tick, clusters, i, basins) ==
  IF i > Len(clusters) THEN basins
  ELSE LET cluster == clusters[i]
           best == BestBasin(basins, cluster, 1, 0, 0)
       IN IF cluster.count < BASIN_MIN_COUNT THEN MatchClusters(tick, clusters, i + 1, basins)
          ELSE IF best = 0
          THEN MatchClusters(tick, clusters, i + 1,
                 Append(basins, [id |-> tick * 1000 + (i - 1), x |-> cluster.x,
                                 y |-> cluster.y, count |-> cluster.count, frames |-> 1,
                                 matched |-> TRUE, promoted |-> FALSE]))
          ELSE MatchClusters(tick, clusters, i + 1,
                 [basins EXCEPT ![best] = MatchBasin(@, cluster)])

\* lines 808-817: the basins no cluster met decay, the empty ones are dropped
DecayUnmatched(matched) ==
  SelectSeq(Strict([k \in DOMAIN matched |->
              IF ~matched[k].matched THEN DecayBasin(matched[k]) ELSE matched[k]]),
            BasinSurvives)

ClearMatched(basins) ==
  Strict([k \in DOMAIN basins |-> [basins[k] EXCEPT !.matched = FALSE]])

\* lines 771-818: cluster the probes, match the basins, decay and filter
DetectBasins(s) ==
  LetIn(clusterPoints(s.probes, CLUSTER_RADIUS), LAMBDA clusters :
    [s EXCEPT !.basins =
       DecayUnmatched(MatchClusters(s.globals.tick, clusters, 1, ClearMatched(s.basins)))])

DetectWith(s, dt, particleRespawnEnabled, collapseParticles, targetParticles) ==
  LetIn(CutProbes(FillProbes(s, s.probes, targetParticles), targetParticles), LAMBDA probes :
    LetIn(ProbeLoop(s, probes, dt, particleRespawnEnabled, collapseParticles), LAMBDA moved :
      DetectBasins([s EXCEPT !.probes = moved])))

basinDetectionOperator(s, dt) ==
  DetectWith(s, dt,
             dynamicWorldCount(s) < HELIOS_LATTICE_WORLD_CAP,
             dynamicWorldCount(s) >= HELIOS_LATTICE_WORLD_CAP,
             IF dynamicWorldCount(s) < HELIOS_LATTICE_WORLD_CAP
             THEN TARGET_PARTICLES ELSE Len(s.probes))

\* ------------------------------------------------------------------------
\* emergentPromotionOperator (stagePresets.ts:820-895)
\* ------------------------------------------------------------------------
PROMOTION_MIN_FRAMES == 10
PROMOTION_MIN_COUNT == 10
PROMOTION_CLEAR_RADIUS == 1000
PROMOTION_SETTLE_GRADIENT == 5000
PROMOTION_ENERGY == 3500
PROMOTION_STRENGTH == 5000

\* `dyn-${tick}-${state.invariants.length}`
DynId(tick, length) == tick * 1000 + length

\* the entity built at lines 855-879
CreatePromoted(s, basin) ==
  LET g == s.globals
      id == DynId(g.tick, Len(s.invariants))
      spawnSalt == idSalt(id)
      mass == WORLD_MASS_MIN +
              Mul(seededUnit(g.seed, spawnSalt * 19 + g.tick * 7),
                  WORLD_MASS_MAX - WORLD_MASS_MIN)
      speed == WORLD_INITIAL_SPEED_MIN +
               Mul(seededUnit(g.seed, spawnSalt * 23 + g.tick * 11),
                   WORLD_INITIAL_SPEED_MAX - WORLD_INITIAL_SPEED_MIN)
      theta == seededUnit(g.seed, spawnSalt * 29 + g.tick * 13)
      originOffsetRadius ==
        180 + Scale(seededUnit(g.seed, spawnSalt * 31 + g.tick * 17), 5, 100)
  IN [id |-> id, position |-> <<basin.x, basin.y>>,
      vx |-> Mul(CosTurn(theta), speed), vy |-> Mul(SinTurn(theta), speed),
      mass |-> mass, originClusterId |-> basin.id,
      originClusterOffset |-> <<Mul(CosTurn(theta), originOffsetRadius),
                                Mul(SinTurn(theta), originOffsetRadius)>>,
      strength |-> PROMOTION_STRENGTH, dynamic |-> TRUE, energy |-> PROMOTION_ENERGY,
      stability |-> U, distressUntilTick |-> NoTick]

\* the test that ends the promotions: before the first one (line 822) and
\* after each one (line 886)
CapReached(worldCount) == worldCount >= HELIOS_LATTICE_WORLD_CAP

\* a basin taken for one that persists whatever its counters
AnyBasin(basin) == TRUE

\* the basin has persisted and is large enough (lines 825-826)
Persistent(basin) ==
  basin.frames >= PROMOTION_MIN_FRAMES /\ basin.count >= PROMOTION_MIN_COUNT

RECURSIVE PromoteLoop(_, _, _, _)
PromoteLoop(s, k, worldCount, maxInvariants) ==
  IF k > Len(s.basins) THEN s
  ELSE LET basin == s.basins[k]
           Near(seq, radius) ==
             \E i \in DOMAIN seq :
               Lt(Hypot(Sub(seq[i].position[1], basin.x), Sub(seq[i].position[2], basin.y)),
                  radius)
           exists == Near(s.invariants, PROMOTION_CLEAR_RADIUS)
           tooCloseToAnchor == Near(s.anchors, ANCHOR_EXCLUSION_RADIUS)
           localDynamicClusterSize ==
             Cardinality({i \in DOMAIN s.invariants :
                /\ s.invariants[i].dynamic
                /\ Lt(Hypot(Sub(s.invariants[i].position[1], basin.x),
                            Sub(s.invariants[i].position[2], basin.y)),
                      CLUSTER_LINK_RADIUS)})
           gradE == computeEnergyGradient(s, <<basin.x, basin.y>>)
           gradD == computeDensityGradient(s, <<basin.x, basin.y>>)
           gradMag == Hypot(Add(gradE[1], Scale(gradD[1], 3, 10)),
                            Add(gradE[2], Scale(gradD[2], 3, 10)))
           created == CreatePromoted(s, basin)
           s1 == [s EXCEPT !.invariants = Append(@, created), !.basins[k].promoted = TRUE]
           s2 == emit(s1, event("PROMOTION", created.id, <<basin.id>>, ""))
           s3 == emit(s2, event("BIRTH", created.id, << >>,
                                "promoted from persistent particle basin into world"))
       IN IF ~Persistent(basin)
          THEN PromoteLoop(s, k + 1, worldCount, maxInvariants)
          ELSE IF exists \/ Len(s.invariants) >= maxInvariants
          THEN PromoteLoop(s, k + 1, worldCount, maxInvariants)
          ELSE IF tooCloseToAnchor THEN PromoteLoop(s, k + 1, worldCount, maxInvariants)
          ELSE IF localDynamicClusterSize >= DYNAMIC_CLUSTER_SIZE_CEILING
          THEN PromoteLoop(
                 emit(s, event("SUPPRESSED", NoId, << >>, "promotion blocked at cluster ceiling")),
                 k + 1, worldCount, maxInvariants)
          ELSE IF Gt(gradMag, PROMOTION_SETTLE_GRADIENT)
          THEN PromoteLoop(s, k + 1, worldCount, maxInvariants)
          ELSE IF CapReached(worldCount + 1)
          THEN emit(s3, event("SUPPRESSED", NoId, << >>,
                 "helios lattice threshold reached (4x4x4); particle respawn disabled"))
          ELSE PromoteLoop(s3, k + 1, worldCount + 1, maxInvariants)

emergentPromotionOperator(s, maxInvariants) ==
  LET worldCount == dynamicWorldCount(s)
  IN IF CapReached(worldCount) THEN s
     ELSE PromoteLoop(s, 1, worldCount, maxInvariants)

\* ------------------------------------------------------------------------
\* worldPhysicsOperator (stagePresets.ts:293-423) and the module-level
\* worldPairLocks map (stagePresets.ts:81)
\* ------------------------------------------------------------------------
NoLocks == [k \in {} |-> 0]

LockGet(locks, key) == IF key \in DOMAIN locks THEN locks[key] ELSE NoTick
LockSet(locks, key, until) ==
  [k \in DOMAIN locks \cup {key} |-> IF k = key THEN until ELSE locks[k]]
LockDelete(locks, key) == [k \in DOMAIN locks \ {key} |-> locks[k]]

\* Math.pow(WORLD_DRAG, dtNorm) for dtNorm = 0.48
WorldDragPerStep == 9942

SafeMass(inv) == MathMax(2000, inv.mass)

\* an expiry twice the window away
LockLonger(tick) == tick + 2 * WORLD_SNAP_LOCK_TICKS

\* the expiry written when a pair locks (line 345)
LockExpiry(tick) == tick + WORLD_SNAP_LOCK_TICKS

\* acceleration of gravity toward the origin (lines 302-312)
GravityAccel(world) ==
  LET gx == Neg(world.position[1])
      gy == Neg(world.position[2])
      gDist == OrOne(Hypot(gx, gy))
      gravity == Mul(WORLD_GRAVITY_GAIN, Add(5500, MathMin(13500, gDist)))
  IN <<Div(Mul(Div(gx, gDist), gravity), SafeMass(world)),
       Div(Mul(Div(gy, gDist), gravity), SafeMass(world))>>

\* add (fx, fy) / mass to a's acceleration and subtract it from b's
PushPair(accel, i, j, fx, fy, worlds) ==
  [accel EXCEPT
     ![i] = <<Add(@[1], Div(fx, SafeMass(worlds[i]))), Add(@[2], Div(fy, SafeMass(worlds[i])))>>,
     ![j] = <<Sub(@[1], Div(fx, SafeMass(worlds[j]))), Sub(@[2], Div(fy, SafeMass(worlds[j])))>>]

RECURSIVE PhysicsPairs(_, _, _, _, _, _)
\* the pair loop (lines 314-393); acc = [accel, locks]
PhysicsPairs(worlds, seed, tick, i, j, acc) ==
  LET n == Len(worlds)
  IN IF i > n THEN acc
     ELSE IF j > n THEN PhysicsPairs(worlds, seed, tick, i + 1, i + 2, acc)
     ELSE
       LET a == worlds[i]
           b == worlds[j]
           dx == Sub(b.position[1], a.position[1])
           dy == Sub(b.position[2], a.position[2])
           dist == OrOne(Hypot(dx, dy))
           ux == Div(dx, dist)
           uy == Div(dy, dist)
           rvx == Sub(b.vx, a.vx)
           rvy == Sub(b.vy, a.vy)
           relVelAlong == Add(Mul(rvx, ux), Mul(rvy, uy))
           lockId == pairKey(a.id, b.id)
           lockUntilTick == LockGet(acc.locks, lockId)
           isLocked == lockUntilTick # NoTick /\ tick <= lockUntilTick
           locks1 == IF dist < WORLD_SNAP_LOCK_RADIUS /\ Lt(relVelAlong, 0) /\ ~isLocked
                     THEN LockSet(acc.locks, lockId, LockExpiry(tick))
                     ELSE acc.locks
           released == ~isLocked /\ lockUntilTick # NoTick /\ tick > lockUntilTick
           \* locked: snap to the rest distance and damp the relative slip
           snapForce == Mul(Sub(dist, WORLD_SNAP_LOCK_REST_DISTANCE), WORLD_SNAP_LOCK_GAIN)
           lockDamp == Mul(relVelAlong, WORLD_SNAP_LOCK_DAMP)
           \* released: outward push and tangential swerve
           spinSign == IF seededUnit(seed, idSalt(a.id) * 53 + idSalt(b.id) * 97) > 5000
                       THEN 1 ELSE -1
           impulseX == Add(Mul(ux, WORLD_SEPARATION_IMPULSE),
                           Mul(Scale(Neg(uy), spinSign, 1), WORLD_SEPARATION_SWERVE))
           impulseY == Add(Mul(uy, WORLD_SEPARATION_IMPULSE),
                           Mul(Scale(ux, spinSign, 1), WORLD_SEPARATION_SWERVE))
           accel1 ==
             IF isLocked
             THEN PushPair(PushPair(acc.accel, i, j, Mul(ux, snapForce), Mul(uy, snapForce), worlds),
                           i, j, Mul(ux, lockDamp), Mul(uy, lockDamp), worlds)
             ELSE IF released
             THEN PushPair(acc.accel, i, j, Neg(impulseX), Neg(impulseY), worlds)
             ELSE acc.accel
           locks2 == IF released THEN LockDelete(locks1, lockId) ELSE locks1
           \* contact repulsion and tangential friction inside the repel radius
           repelNorm == Div(WORLD_REPEL_RADIUS - dist, WORLD_REPEL_RADIUS)
           force == Mul(Mul(repelNorm, repelNorm), WORLD_REPEL_GAIN)
           tangentialSpeed == Add(Mul(rvx, Neg(uy)), Mul(rvy, ux))
           frictionMag == Mul(Mul(tangentialSpeed, WORLD_COLLISION_FRICTION), repelNorm)
           accel2 ==
             IF dist >= WORLD_REPEL_RADIUS THEN accel1
             ELSE PushPair(PushPair(accel1, i, j, Neg(Mul(ux, force)), Neg(Mul(uy, force)), worlds),
                           i, j, Mul(Neg(uy), frictionMag), Mul(ux, frictionMag), worlds)
       IN PhysicsPairs(worlds, seed, tick, i, j + 1, [accel |-> accel2, locks |-> locks2])

\* velocity and position of one entity after the step (lines 395-422)
Integrate(world, a, seed, dtNorm) ==
  LET vx0 == Mul(Add(world.vx, Mul(a[1], dtNorm)), WorldDragPerStep)
      vy0 == Mul(Add(world.vy, Mul(a[2], dtNorm)), WorldDragPerStep)
      speed == Hypot(vx0, vy0)
      capped == Gt(speed, WORLD_SPEED_CAP)
      vx1 == IF capped THEN Mul(vx0, Div(WORLD_SPEED_CAP, speed)) ELSE vx0
      vy1 == IF capped THEN Mul(vy0, Div(WORLD_SPEED_CAP, speed)) ELSE vy0
      spinDir == IF seededUnit(seed, idSalt(world.id) * 43 + 3) > 5000 THEN 1 ELSE -1
      rx == world.position[1]
      ry == world.position[2]
      rDist == OrOne(Hypot(rx, ry))
      tx == Scale(Div(Neg(ry), rDist), spinDir, 1)
      ty == Scale(Div(rx, rDist), spinDir, 1)
      slow == Lt(speed, WORLD_MIN_SPEED)
      vx == IF slow THEN Add(vx1, Mul(Mul(tx, WORLD_MIN_SPEED_KICK), dtNorm)) ELSE vx1
      vy == IF slow THEN Add(vy1, Mul(Mul(ty, WORLD_MIN_SPEED_KICK), dtNorm)) ELSE vy1
  IN [world EXCEPT !.vx = vx, !.vy = vy,
                   !.position = <<Add(world.position[1], Mul(vx, dtNorm)),
                                  Add(world.position[2], Mul(vy, dtNorm))>>]

\* s.locks carries the module-level map through the pipeline
worldPhysicsOperator(s, dt) ==
  LET worlds == dynamicInvariants(s)
      gravity == Strict([k \in DOMAIN worlds |-> GravityAccel(worlds[k])])
      r == PhysicsPairs(worlds, s.globals.seed, s.globals.tick, 1, 2,
                        [accel |-> gravity, locks |-> s.locks])
      moved == Strict([k \in DOMAIN worlds |->
                  Integrate(worlds[k], r.accel[k], s.globals.seed, DtNorm(dt))])
  IN IF Len(worlds) = 0 THEN s
     ELSE [WriteDynamics(s, moved) EXCEPT !.locks = r.locks]

\* ------------------------------------------------------------------------
\* originClusterTetherOperator (stagePresets.ts:425-477)
\* ------------------------------------------------------------------------
BasinById(basins, id) ==
  LET hits == SelectSeq(basins, LAMBDA b : b.id = id)
  IN IF Len(hits) = 0 THEN [id |-> NoId] ELSE hits[Len(hits)]

MeanOf(seq, F(_)) == Div(Scale(SumOver(seq, F, Len(seq)), 1, 1), Len(seq) * U)

TetherWorld(s, world, worldCenterX, worldCenterY, dtNorm) ==
  LET origin == BasinById(s.basins, world.originClusterId)
      tick == s.globals.tick
      birthTick == IF HasEntry(s.registry, world.id)
                   THEN s.registry[EntryIndex(s.registry, world.id)].birthTick
                   ELSE tick
      ageNorm == clamp01(Quot((tick - birthTick) * U, ORIGIN_CLUSTER_RELEASE_TICKS))
      tetherGain == Mul(ORIGIN_CLUSTER_TETHER_GAIN, U - Mul(ageNorm, 7500))
      tetherDamp == Mul(ORIGIN_CLUSTER_TETHER_DAMP, U - Mul(ageNorm, 4500))
      offset == world.originClusterOffset
      targetX == Add(origin.x, offset[1])
      targetY == Add(origin.y, offset[2])
      fx0 == Add(Mul(Sub(targetX, world.position[1]), tetherGain), Mul(Neg(world.vx), tetherDamp))
      fy0 == Add(Mul(Sub(targetY, world.position[2]), tetherGain), Mul(Neg(world.vy), tetherDamp))
      awayX == Sub(worldCenterX, origin.x)
      awayY == Sub(worldCenterY, origin.y)
      awayDist == OrOne(Hypot(awayX, awayY))
      groupPull == MathMin(ORIGIN_CLUSTER_GROUP_PULL_MAX,
                           Mul(Mul(ORIGIN_CLUSTER_GROUP_PULL_GAIN, ageNorm), MathMax(2000, awayDist)))
      fx1 == Add(fx0, Mul(Div(awayX, awayDist), groupPull))
      fy1 == Add(fy0, Mul(Div(awayY, awayDist), groupPull))
      fMag == Hypot(fx1, fy1)
      over == Gt(fMag, ORIGIN_CLUSTER_TETHER_MAX_FORCE)
      fx == IF over THEN Mul(fx1, Div(ORIGIN_CLUSTER_TETHER_MAX_FORCE, fMag)) ELSE fx1
      fy == IF over THEN Mul(fy1, Div(ORIGIN_CLUSTER_TETHER_MAX_FORCE, fMag)) ELSE fy1
  IN IF world.originClusterId = NoId THEN world
     ELSE IF origin.id = NoId
     THEN [world EXCEPT !.originClusterId = NoId, !.originClusterOffset = <<0, 0>>]
     ELSE [world EXCEPT !.vx = Add(@, Mul(fx, dtNorm)), !.vy = Add(@, Mul(fy, dtNorm))]

originClusterTetherOperator(s, dt) ==
  LET worlds == dynamicInvariants(s)
      worldCenterX == MeanOf(worlds, LAMBDA w : w.position[1])
      worldCenterY == MeanOf(worlds, LAMBDA w : w.position[2])
  IN IF Len(worlds) = 0 THEN s
     ELSE MapDynamics(s, LAMBDA w : TetherWorld(s, w, worldCenterX, worldCenterY, DtNorm(dt)))

\* ------------------------------------------------------------------------
\* clusteredSignatureOperator (stagePresets.ts:479-526)
\* ------------------------------------------------------------------------
ENABLE_CLUSTER_EXTRAS == FALSE
CLUSTER_B == CLUSTER_SWIRL_GAIN
CLUSTER_CI == CLUSTER_COHESION_GAIN

\* the cluster of ids that holds id
ClusterOf(clusters, id) ==
  LET hits == SelectSeq(clusters, LAMBDA c : \E k \in DOMAIN c : c[k] = id)
  IN hits[1]

SignatureMove(s, inv, members, dtNorm) ==
  LET invs == Strict([k \in DOMAIN members |-> GetDyn(s, members[k])])
      centroidX == MeanOf(invs, LAMBDA m : m.position[1])
      centroidY == MeanOf(invs, LAMBDA m : m.position[2])
      ring == CLUSTER_TARGET_RING
      spinSign == IF seededUnit(s.globals.seed, s.globals.tick * 17 + Len(members) * 31) > 5000
                  THEN 1 ELSE -1
      dx == Sub(inv.position[1], centroidX)
      dy == Sub(inv.position[2], centroidY)
      dist == OrOne(Hypot(dx, dy))
      ux == Div(dx, dist)
      uy == Div(dy, dist)
      ringCorrection == Mul(Mul(Sub(ring, dist), CLUSTER_CI), dtNorm)
      swirl == Scale(Mul(CLUSTER_B, dtNorm), spinSign, 1)
  IN [inv EXCEPT !.position =
        <<Add(inv.position[1], Add(Mul(ux, ringCorrection), Mul(Neg(uy), swirl))),
          Add(inv.position[2], Add(Mul(uy, ringCorrection), Mul(ux, swirl)))>>]

clusteredSignatureOperator(s, dt) ==
  LET clusters == dynamicClusters(s)
  IN IF Len(clusters) = 0 THEN s
     ELSE MapDynamics(s, LAMBDA inv :
            LET members == ClusterOf(clusters, inv.id)
            IN IF Len(members) < 2 THEN inv
               ELSE SignatureMove(s, inv, members, DtNorm(dt)))

\* ------------------------------------------------------------------------
\* heliosGelMembraneOperator (stagePresets.ts:578-663)
\* ------------------------------------------------------------------------
HELIOS_SINGULARITY_TARGET_RADIUS == 750
HELIOS_CENTROID_DRIFT_GAIN == 0

\* (springNorm * recombineGain + springNorm * |springNorm| * snapGain) * dtNorm
SpringPull(springNorm, dtNorm) ==
  Mul(Add(Mul(springNorm, Mul(HELIOS_GEL_RECOMBINE_GAIN, HELIOS_POSTCAP_SPRING_DAMP)),
          Mul(Mul(springNorm, MathAbs(springNorm)),
              Mul(HELIOS_GEL_SNAP_GAIN, HELIOS_POSTCAP_SPRING_DAMP))), dtNorm)

\* the push away from a neighbour nearer than the resist radius, 0 otherwise
Resist(dist, dtNorm) ==
  IF Lt(dist, HELIOS_GEL_RESIST_RADIUS)
  THEN Mul(Mul(Div(Sub(HELIOS_GEL_RESIST_RADIUS, dist), HELIOS_GEL_RESIST_RADIUS),
               HELIOS_GEL_RESIST_GAIN), dtNorm)
  ELSE 0

\* one neighbour added to the sums (lines 612-627); ux, uy is the direction
AddSpring(acc, neighbor, ux, uy, springPull, resist) ==
  [fx |-> IF resist = 0 THEN Add(acc.fx, Mul(ux, springPull))
          ELSE Sub(Add(acc.fx, Mul(ux, springPull)), Mul(ux, resist)),
   fy |-> IF resist = 0 THEN Add(acc.fy, Mul(uy, springPull))
          ELSE Sub(Add(acc.fy, Mul(uy, springPull)), Mul(uy, resist)),
   neighborCount |-> acc.neighborCount + 1,
   neighborCx |-> Add(acc.neighborCx, neighbor.x),
   neighborCy |-> Add(acc.neighborCy, neighbor.y)]

GelWithin(acc, neighbor, dx, dy, dist, dtNorm) ==
  IF Gt(dist, HELIOS_GEL_NEIGHBOR_RADIUS) THEN acc
  ELSE AddSpring(acc, neighbor, Div(dx, dist), Div(dy, dist),
                 SpringPull(Div(Sub(dist, HELIOS_GEL_REST_DISTANCE),
                                HELIOS_GEL_NEIGHBOR_RADIUS), dtNorm),
                 Resist(dist, dtNorm))

GelAdd(acc, neighbor, self, dtNorm) ==
  IF neighbor.id = self.id THEN acc
  ELSE GelWithin(acc, neighbor, Sub(neighbor.x, self.x), Sub(neighbor.y, self.y),
                 OrOne(Hypot(Sub(neighbor.x, self.x), Sub(neighbor.y, self.y))), dtNorm)

\* the inner loop over the snapshot; acc = [fx, fy, neighborCount, neighborCx, neighborCy]
GelNeighbors(snapshot, self, k, dtNorm, acc) ==
  ForEach(k, Len(snapshot), acc, LAMBDA sums, i : GelAdd(sums, snapshot[i], self, dtNorm))

\* the pull toward the neighbours' mean position (lines 630-635)
Viscous(n, self, dtNorm) ==
  IF n.neighborCount > 0
  THEN <<Add(n.fx, Mul(Mul(Sub(Scale(n.neighborCx, 1, n.neighborCount), self.x),
                           HELIOS_GEL_VISCOSITY), dtNorm)),
         Add(n.fy, Mul(Mul(Sub(Scale(n.neighborCy, 1, n.neighborCount), self.y),
                           HELIOS_GEL_VISCOSITY), dtNorm))>>
  ELSE <<n.fx, n.fy>>

\* surface tension along the radius and drift along the tangent (lines 637-651)
Membrane(f, rx, ry, rDist, radialPull, driftDir, drift) ==
  <<Add(Add(f[1], Mul(Div(rx, rDist), radialPull)),
        Mul(Scale(Div(Neg(ry), rDist), driftDir, 1), drift)),
    Add(Add(f[2], Mul(Div(ry, rDist), radialPull)),
        Mul(Scale(Div(rx, rDist), driftDir, 1), drift))>>

\* the step is scaled down to HELIOS_GEL_MAX_STEP (lines 653-658)
LimitStep(f, step) ==
  IF Gt(step, HELIOS_GEL_MAX_STEP)
  THEN <<Mul(f[1], Div(HELIOS_GEL_MAX_STEP, step)), Mul(f[2], Div(HELIOS_GEL_MAX_STEP, step))>>
  ELSE f

Limited(f) == LimitStep(f, Hypot(f[1], f[2]))

Displaced(world, f) ==
  [world EXCEPT !.position = <<Add(world.position[1], f[1]), Add(world.position[2], f[2])>>]

SingularityProgress(meanRadius) ==
  clamp01(Div(Sub(meanRadius, HELIOS_SINGULARITY_TARGET_RADIUS),
              MathMax(10, HELIOS_SINGULARITY_TARGET_RADIUS * 4)))

GelForce(s, self, n, rx, ry, rDist, meanRadius, dtNorm) ==
  Limited(Membrane(Viscous(n, self, dtNorm), rx, ry, rDist,
                   Mul(Mul(Sub(meanRadius, rDist), HELIOS_GEL_SURFACE_TENSION), dtNorm),
                   IF seededUnit(s.globals.seed, idSalt(self.id) * 61 + 19) > 5000
                   THEN 1 ELSE -1,
                   Mul(Mul(HELIOS_CENTROID_DRIFT_GAIN,
                           Add(6000, Mul(SingularityProgress(meanRadius), 8000))), dtNorm)))

GelSelf(s, world, self, snapshot, centerX, centerY, meanRadius, dtNorm) ==
  Displaced(world,
    GelForce(s, self,
             GelNeighbors(snapshot, self, 1, dtNorm,
               [fx |-> 0, fy |-> 0, neighborCount |-> 0, neighborCx |-> 0, neighborCy |-> 0]),
             Sub(self.x, centerX), Sub(self.y, centerY),
             OrOne(Hypot(Sub(self.x, centerX), Sub(self.y, centerY))),
             meanRadius, dtNorm))

GelMove(s, world, snapshot, centerX, centerY, meanRadius, dtNorm) ==
  GelSelf(s, world, [id |-> world.id, x |-> world.position[1], y |-> world.position[2]],
          snapshot, centerX, centerY, meanRadius, dtNorm)

Snapshot(worlds) ==
  Strict([k \in DOMAIN worlds |->
     [id |-> worlds[k].id, x |-> worlds[k].position[1], y |-> worlds[k].position[2]]])

MeanRadius(snapshot, centerX, centerY) ==
  MeanOf(snapshot, LAMBDA w : Hypot(Sub(w.x, centerX), Sub(w.y, centerY)))

GelCentered(s, snapshot, centerX, centerY, dtNorm) ==
  LetIn(MeanRadius(snapshot, centerX, centerY), LAMBDA meanRadius :
    MapDynamics(s, LAMBDA w : GelMove(s, w, snapshot, centerX, centerY, meanRadius, dtNorm)))

GelAll(s, snapshot, dtNorm) ==
  GelCentered(s, snapshot, MeanOf(snapshot, LAMBDA w : w.x), MeanOf(snapshot, LAMBDA w : w.y),
              dtNorm)

heliosGelMembraneOperator(s, dt) ==
  IF dynamicWorldCount(s) < HELIOS_LATTICE_WORLD_CAP THEN s
  ELSE GelAll(s, Snapshot(dynamicInvariants(s)), DtNorm(dt))

\* ------------------------------------------------------------------------
\* ensureAnchor, closureOperator, oscillationOperator (stagePresets.ts:665-693)
\* ------------------------------------------------------------------------
ensureAnchor(s, id, position, strength) ==
  IF \E i \in DOMAIN s.invariants : s.invariants[i].id = id THEN s
  ELSE [s EXCEPT !.invariants =
          Append(@, MkInvariant(id, position, 0, 0, U, strength, FALSE, 0, U))]

RECURSIVE EnsureAll(_, _, _)
EnsureAll(s, configuredAnchors, k) ==
  IF k > Len(configuredAnchors) THEN s
  ELSE EnsureAll(ensureAnchor(s, configuredAnchors[k].id, configuredAnchors[k].position,
                              configuredAnchors[k].strength),
                 configuredAnchors, k + 1)

closureOperator(s) ==
  LET configuredAnchors == getConfiguredAnchors
      configuredAnchorIds == {configuredAnchors[k].id : k \in DOMAIN configuredAnchors}
      s1 == [s EXCEPT !.globals.energyEnabled = FALSE]
      s2 == EnsureAll(s1, configuredAnchors, 1)
      kept == SelectSeq(s2.invariants, LAMBDA inv : inv.dynamic \/ inv.id \in configuredAnchorIds)
  IN [s2 EXCEPT !.invariants = kept,
                !.anchors = SelectSeq(kept, LAMBDA inv : ~inv.dynamic)]

oscillationOperator(s) == [s EXCEPT !.globals.energyEnabled = TRUE]

\* ------------------------------------------------------------------------
\* compose (operators/compose.ts:6-17) and the presets
\* (stagePresets.ts:1024-1100)
\* ------------------------------------------------------------------------
Operators(presetId) ==
  CASE presetId = "stage-1-closure" -> <<"closure">>
    [] presetId = "stage-2-oscillation" -> <<"closure", "oscillation">>
    [] presetId = "stage-3-basin-detection" -> <<"closure", "oscillation", "basinDetection">>
    [] presetId = "stage-4-promotion-ecosystem" ->
         <<"closure", "oscillation", "basinDetection", "sanctuaryField",
           "clusteredSignature", "emergentPromotion", "competitiveEcosystem",
           "worldPhysics", "originClusterTether", "heliosGelMembrane",
           "clusterCeiling", "distressLifecycle">>
    [] presetId = "stage-5-selection-pressure" ->
         <<"closure", "oscillation", "basinDetection", "sanctuaryField",
           "clusteredSignature", "emergentPromotion", "competitiveEcosystem",
           "selectionPressure", "worldPhysics", "originClusterTether",
           "heliosGelMembrane", "clusterCeiling", "budgetRegulator",
           "distressLifecycle">>

stagePresets ==
  {"stage-1-closure", "stage-2-oscillation", "stage-3-basin-detection",
   "stage-4-promotion-ecosystem", "stage-5-selection-pressure"}

ApplyOperator(operator, s, params, dt) ==
  CASE operator = "closure" -> closureOperator(s)
    [] operator = "oscillation" -> oscillationOperator(s)
    [] operator = "basinDetection" -> basinDetectionOperator(s, dt)
    [] operator = "sanctuaryField" -> sanctuaryFieldOperator(s, dt)
    [] operator = "clusteredSignature" -> clusteredSignatureOperator(s, dt)
    [] operator = "emergentPromotion" -> emergentPromotionOperator(s, params.maxInvariants)
    [] operator = "competitiveEcosystem" -> competitiveEcosystemOperator(s)
    [] operator = "selectionPressure" -> selectionPressureOperator(s)
    [] operator = "worldPhysics" -> worldPhysicsOperator(s, dt)
    [] operator = "originClusterTether" -> originClusterTetherOperator(s, dt)
    [] operator = "heliosGelMembrane" -> heliosGelMembraneOperator(s, dt)
    [] operator = "clusterCeiling" -> clusterCeilingOperator(s, dt)
    [] operator = "budgetRegulator" -> budgetRegulatorOperator(s, dt)
    [] operator = "distressLifecycle" -> distressLifecycleOperator(s)

\* Operators that return a state (operators/types.ts:13-18 allows void or a
\* SimState): each hands its state to the operator it wraps as a copy and
\* returns the copy.  No preset has one; they are operators a caller of
\* compose may pass.
ReplacingOperators == {"closureReplacing", "oscillationReplacing"}

Wrapped(operator) ==
  IF operator = "closureReplacing" THEN "closure" ELSE "oscillation"

\* The objects of a step: state is the object stepSimulation was called on,
\* nextState the object the loop of compose holds, same when they are one object
Thread(s) == [state |-> s, nextState |-> s, same |-> TRUE]

\* what context.emit pushed while an operator took the state before to after
Emitted(before, after) == SubSeq(after.events, Len(before.events) + 1, Len(after.events))

\* const result = operator(nextState, params, dt, context); if (result)
\* nextState = result (compose.ts:11-12).  An operator works on the object it
\* is given; context.emit pushes onto the events of the object stepSimulation
\* was called on (engine.ts:110-113)
Operate(operator, h, params, dt) ==
  IF operator \in ReplacingOperators
  THEN LetIn(ApplyOperator(Wrapped(operator), h.nextState, params, dt),
         LAMBDA r :
           [state |-> [h.state EXCEPT !.events = @ \o Emitted(h.nextState, r)],
            nextState |-> [r EXCEPT !.events = h.nextState.events],
            same |-> FALSE])
  ELSE LetIn(ApplyOperator(operator, h.nextState, params, dt),
         LAMBDA r :
           IF h.same THEN [state |-> r, nextState |-> r, same |-> TRUE]
           ELSE [state |-> [h.state EXCEPT !.events = @ \o Emitted(h.nextState, r)],
                 nextState |-> [r EXCEPT !.events = h.nextState.events],
                 same |-> FALSE])

\* compose (compose.ts:6-17): the loop from the k-th operator on
compose(operators, k, h, params, dt) ==
  ForEach(k, Len(operators), h, LAMBDA acc, i : Operate(operators[i], acc, params, dt))

\* ------------------------------------------------------------------------
\* validateState (constraints/validate.ts:8-30): the violation codes in order
\* ------------------------------------------------------------------------
RECURSIVE InvariantIssues(_, _, _)
InvariantIssues(invs, domainRadius, k) ==
  IF k > Len(invs) THEN << >>
  ELSE LET inv == invs[k]
           bounded == IF Gt(MathAbs(inv.position[1]), domainRadius)
                         \/ Gt(MathAbs(inv.position[2]), domainRadius)
                      THEN <<"BOUNDED_DOMAIN">> ELSE << >>
           finite == IF ~IsFinite(inv.energy) \/ ~IsFinite(inv.strength)
                        \/ ~IsFinite(inv.stability)
                     THEN <<"FINITE_VALUES">> ELSE << >>
       IN bounded \o finite \o InvariantIssues(invs, domainRadius, k + 1)

validateState(s, expectedConstitutionHash) ==
  InvariantIssues(s.invariants, s.globals.domainRadius, 1)
  \o (IF ~IsFinite(s.globals.budget) \/ Lt(s.globals.budget, 0)
      THEN <<"FINITE_BUDGET">> ELSE << >>)
  \o (IF s.globals.constitutionHash # expectedConstitutionHash
      THEN <<"CONSTITUTION_IMMUTABLE">> ELSE << >>)

RECURSIVE JoinCodes(_, _)
\* violations.map((issue) => issue.code).join(",")
JoinCodes(codes, k) ==
  IF k > Len(codes) THEN ""
  ELSE IF k = Len(codes) THEN codes[k]
  ELSE codes[k] \o "," \o JoinCodes(codes, k + 1)

\* ------------------------------------------------------------------------
\* applyEventsToRegistry, stepSimulation (engine.ts:77-136)
\* ------------------------------------------------------------------------
RECURSIVE ApplyEvents(_, _, _, _)
ApplyEvents(invariants, events, k, registry) ==
  IF k > Len(events) THEN registry
  ELSE
    LET evt == events[k]
        found == SelectSeq(invariants, LAMBDA c : c.id = evt.invariantId)
        next ==
          IF evt.type \in {"BIRTH", "PROMOTION"}
          THEN IF Len(found) = 0 THEN registry
               ELSE registerBirth(registry, found[1], evt.tick, evt.relatedIds)
          ELSE IF evt.type \in {"DEATH", "STARVATION"}
          THEN IF evt.invariantId = NoId THEN registry
               ELSE registerDeath(registry, evt.invariantId, evt.tick)
          ELSE IF evt.type = "SUPPRESSED"
          THEN IF Len(evt.relatedIds) > 0 /\ evt.relatedIds[1] # NoId
               THEN registerWin(registry, evt.relatedIds[1]) ELSE registry
          ELSE registry
    IN ApplyEvents(invariants, events, k + 1, next)

applyEventsToRegistry(s) ==
  [s EXCEPT !.registry = ApplyEvents(s.invariants, s.events, 1, @)]

SampleAll(registry, invs, k) ==
  ForEach(k, Len(invs), registry, LAMBDA acc, i : sampleInvariant(acc, invs[i]))

\* the step begun with the events of the step before left in place
KeepEvents(s, dt) == [s EXCEPT !.globals.tick = @ + 1, !.globals.time = @ + dt]

\* lines 100-102
BeginStep(s, dt) ==
  [s EXCEPT !.events = << >>, !.globals.tick = @ + 1, !.globals.time = @ + dt]

\* line 117
FilterAnchors(s) == [s EXCEPT !.anchors = SelectSeq(s.invariants, LAMBDA inv : ~inv.dynamic)]

\* lines 119-121
SampleInvariants(s) == [s EXCEPT !.registry = SampleAll(@, s.invariants, 1)]

\* line 124
Measure(s) == [s EXCEPT !.metrics = computeMetrics(s)]

\* a report of one event for each violation
ReportEach(s, violations) ==
  [s EXCEPT !.events = @ \o
     [k \in DOMAIN violations |->
        [type |-> "SUPPRESSED", tick |-> s.globals.tick, invariantId |-> NoId,
         relatedIds |-> << >>, reason |-> violations[k]]]]

\* lines 126-133
Report(s, violations) ==
  IF Len(violations) > 0
  THEN [s EXCEPT !.events = Append(@,
          [type |-> "SUPPRESSED", tick |-> s.globals.tick, invariantId |-> NoId,
           relatedIds |-> << >>, reason |-> JoinCodes(violations, 1)])]
  ELSE s

Validate(s) == Report(s, validateState(s, CONSTITUTION_HASH))

\* lines 117-135: what stepSimulation does with a state after the operators
Conclude(stepped) ==
  LetIn(applyEventsToRegistry(SampleInvariants(FilterAnchors(stepped))),
        LAMBDA sampled : Validate(Measure(sampled)))

\* a StagePreset: its id and its operators
StagePreset(presetId) == [id |-> presetId, operators |-> Operators(presetId)]

\* stepSimulation (engine.ts:99-136); the value step returns is dropped
\* (line 105) and the lines after it go on with state
stepSimulation(s, stagePreset, dt) ==
  LetIn(compose(stagePreset.operators, 1, Thread(BeginStep(s, dt)),
                [presetId |-> stagePreset.id, maxInvariants |-> MaxInvariants], dt),
        LAMBDA threaded : Conclude(threaded.state))

\* ------------------------------------------------------------------------
\* The running application (components/Canvas.tsx)
\* ------------------------------------------------------------------------
Seeds == {424242, 6, 4}

\* canvas size in pixels; getWorldBounds (Canvas.tsx:41-50)
CanvasWidth == 800
CanvasHeight == 800
WORLD_OVERFLOW_PX == 120

VARIABLES
  state,            \* simRef.current, the SimState
  worldPairLocks,   \* the module-level Map of stagePresets.ts
  preset,           \* presetRef.current.id
  eventLog,         \* history: the lifecycle events the current simulation emitted
  run,              \* history: how many simulations were constructed
  firstTrace,       \* history: metrics after each step of the first simulation
  firstLog,         \* history: registry birth and death ticks the first simulation ended with
  given,            \* history: the SimState an operator was called on by itself,
                    \* or the inputs handed to the program so far, each pointer
                    \* event with the tick it arrived after
  applied,          \* history: the operator that was called by itself, "" if none
  dragState,        \* the dragState of the Canvas effect (Canvas.tsx:125), NoDrag for null
  frames,           \* telemetryCounter: how many steps render has made in this page
  telemetry         \* the record last handed to onTelemetry (Canvas.tsx:937-943)

vars == <<state, worldPairLocks, preset, eventLog, run, firstTrace, firstLog, given, applied,
          dragState, frames, telemetry>>

LifecycleTypes == {"BIRTH", "PROMOTION", "DEATH", "STARVATION", "DISTRESS", "RECOVERY"}

Logged(events) ==
  {[type |-> events[k].type, tick |-> events[k].tick, id |-> events[k].invariantId,
    at |-> k] :
     k \in {i \in DOMAIN events : events[i].type \in LifecycleTypes}}

\* the birth and death ticks a registry holds
RegistryTicks(registry) ==
  {<<registry[k].id, registry[k].birthTick, registry[k].deathTick>> : k \in DOMAIN registry}

\* the SimState together with the module-level lock map the operators reach
Bind(s, locks) ==
  [anchors |-> s.anchors, invariants |-> s.invariants, probes |-> s.probes,
   basins |-> s.basins, globals |-> s.globals, registry |-> s.registry,
   events |-> s.events, metrics |-> s.metrics, locks |-> locks]

Unbind(r) ==
  [anchors |-> r.anchors, invariants |-> r.invariants, probes |-> r.probes,
   basins |-> r.basins, globals |-> r.globals, registry |-> r.registry,
   events |-> r.events, metrics |-> r.metrics]

\* getWorldBounds (Canvas.tsx:41-50)
getWorldBounds ==
  LET minPx == IF CanvasWidth < CanvasHeight THEN CanvasWidth ELSE CanvasHeight
  IN [scale |-> (2 * U) \div minPx, cx |-> CanvasWidth \div 2, cy |-> CanvasHeight \div 2,
      halfW |-> (CanvasWidth * U) \div minPx, halfH |-> (CanvasHeight * U) \div minPx]

\* pointerToWorld (Canvas.tsx:154-160); the canvas lies at the page origin,
\* rect.left = rect.top = 0, and client is <<clientX, clientY>> in pixels
pointerToWorld(client) ==
  <<(client[1] - getWorldBounds.cx) * getWorldBounds.scale,
    (client[2] - getWorldBounds.cy) * getWorldBounds.scale>>

WORLD_PICK_RADIUS_PX == 30

\* distPx of findNearestWorld, in world units: distPx * bounds.scale
PickDistance(world, client) ==
  Hypot(Sub(world.position[1], pointerToWorld(client)[1]),
        Sub(world.position[2], pointerToWorld(client)[2]))

\* findNearestWorld (Canvas.tsx:162-183): the index of the dynamic world
\* nearest to the pointer within the pick radius, 0 for null
findNearestWorld(s, client) ==
  ForEach(1, Len(s.invariants), 0,
    LAMBDA nearest, k :
      IF ~s.invariants[k].dynamic THEN nearest
      ELSE IF Gt(PickDistance(s.invariants[k], client),
                 WORLD_PICK_RADIUS_PX * getWorldBounds.scale) THEN nearest
      ELSE IF nearest = 0
              \/ Lt(PickDistance(s.invariants[k], client),
                    PickDistance(s.invariants[nearest], client)) THEN k
      ELSE nearest)

\* dragState = null; one pointer, so pointerId is left out
NoDrag == [worldId |-> NoId, offset |-> <<0, 0>>]

\* onPointerDown (Canvas.tsx:185-197)
onPointerDown(s, drag, client) ==
  LET hit == findNearestWorld(s, client)
  IN IF hit = 0 THEN drag
     ELSE [worldId |-> s.invariants[hit].id,
           offset |-> <<Sub(s.invariants[hit].position[1], pointerToWorld(client)[1]),
                        Sub(s.invariants[hit].position[2], pointerToWorld(client)[2])>>]

\* onPointerMove (Canvas.tsx:199-212) while a world is dragged; without a
\* drag it only sets hoverWorldId, which nothing but the drawing reads
onPointerMove(s, drag, client) ==
  [s EXCEPT !.invariants =
     [k \in DOMAIN @ |->
        IF @[k].id = drag.worldId /\ @[k].dynamic
             /\ \A j \in 1..(k - 1) : ~(@[j].id = drag.worldId /\ @[j].dynamic)
        THEN [@[k] EXCEPT !.position = <<Add(pointerToWorld(client)[1], drag.offset[1]),
                                          Add(pointerToWorld(client)[2], drag.offset[2])>>,
                          !.vx = 0, !.vy = 0]
        ELSE @[k]]]

\* no record handed over yet
NoTelemetry ==
  [simulation |-> 0, tick |-> NoTick, metrics |-> << >>, registryEntries |-> << >>,
   eventCount |-> 0, anchors |-> << >>]

TELEMETRY_EVERY == 10

\* the record of Canvas.tsx:937-943.  metrics is a copy of the metrics and
\* each anchor a copy of id and position; registryEntries is the array of
\* getRegistryEntries (registry.ts:51-53, Canvas.tsx:266), a new array of the
\* entry objects themselves, here the ids of the entries of the simulation
\* numbered simulation
Telemetry(s, simulation) ==
  [simulation |-> simulation,
   tick |-> s.globals.tick,
   metrics |-> s.metrics,
   registryEntries |-> [k \in DOMAIN s.registry |-> s.registry[k].id],
   eventCount |-> Len(s.events),
   anchors |-> [k \in DOMAIN s.anchors |->
                  [id |-> s.anchors[k].id, position |-> s.anchors[k].position]]]

\* telemetryCounter += 1; if (onTelemetry && telemetryCounter % 10 === 0)
\* (Canvas.tsx:935-936)
Handed(telemetryCounter, s, simulation, last) ==
  IF telemetryCounter % TELEMETRY_EVERY = 0 THEN Telemetry(s, simulation) ELSE last

\* render (Canvas.tsx:233-251): viewport fields, then stepSimulation
render(s) ==
  LET minPx == IF CanvasWidth < CanvasHeight THEN CanvasWidth ELSE CanvasHeight
  IN [s EXCEPT !.globals.viewportMinPx = minPx,
               !.globals.worldOverflow = WORLD_OVERFLOW_PX * getWorldBounds.scale,
               !.globals.worldHalfW = getWorldBounds.halfW,
               !.globals.worldHalfH = getWorldBounds.halfH]

\* how many ticks a simulation runs: the first one may run on, a later one runs
\* as long as the first had run when it was replaced
TickLimit == IF run = 1 THEN MaxTick ELSE RunLength

Init ==
  /\ \E seed \in Seeds : state = createSimulationState(seed)
  /\ worldPairLocks = NoLocks
  /\ preset \in stagePresets
  /\ eventLog = {}
  /\ run = 1
  /\ firstTrace = << >>
  /\ firstLog = {}
  /\ given = << >>
  /\ applied = ""
  /\ dragState = NoDrag
  /\ frames = 0
  /\ telemetry = NoTelemetry

\* one animation frame (Canvas.tsx:233-251)
Step ==
  /\ state.globals.tick < TickLimit
  /\ \E r \in {stepSimulation(Bind(render(state), worldPairLocks), StagePreset(preset),
                                SIM_STEP)} :
        /\ state' = Unbind(r)
        /\ worldPairLocks' = r.locks
        /\ eventLog' = eventLog \cup Logged(r.events)
        /\ firstTrace' = IF run = 1 THEN Append(firstTrace, r.metrics) ELSE firstTrace
        /\ telemetry' = Handed(frames + 1, r, run, telemetry)
  /\ frames' = frames + 1
  /\ UNCHANGED <<preset, run, firstLog, given, applied, dragState>>

\* simRef.current = createSimulationState(seed) (Canvas.tsx:68-70): the same
\* seed is simulated anew in the same page, where the module-level
\* worldPairLocks of stagePresets.ts:81 is not constructed again
Restart ==
  /\ run = 1
  /\ state.globals.tick = RunLength
  /\ state' = createSimulationState(state.globals.seed)
  /\ run' = 2
  /\ eventLog' = {}
  /\ firstLog' = RegistryTicks(state.registry)
  /\ UNCHANGED <<worldPairLocks, preset, firstTrace, given, applied, dragState, frames,
                 telemetry>>

Next == Step \/ Restart

Spec == Init /\ [][Next]_vars

\* ------------------------------------------------------------------------
\* The running application left to itself: requestAnimationFrame calls render
\* again and again (Canvas.tsx:233-251), so a step that can be taken is taken
\* ------------------------------------------------------------------------
\* a frame in which render makes a step; frames counts them
Rendered ==
  /\ state.globals.tick < TickLimit
  /\ frames' = frames + 1

RunningSpec == Init /\ [][Step]_vars /\ WF_frames(Rendered)

\* ------------------------------------------------------------------------
\* The running application with a pointer: late in the run a world is picked
\* up, dragged and released while the simulation goes on
\* ------------------------------------------------------------------------
PointerFromTick == 137
MaxPointerEvents == 2

\* where the pointer is moved to; a captured pointer is followed beyond the
\* canvas
PointerPoints == {<<400, 400>>, <<1100, 400>>, <<400, -300>>}

\* the pixel a world is drawn at: position / bounds.scale + bounds.cx
WorldPixel(world) ==
  <<Quot(world.position[1], getWorldBounds.scale) + getWorldBounds.cx,
    Quot(world.position[2], getWorldBounds.scale) + getWorldBounds.cy>>

PointerDown ==
  /\ state.globals.tick >= PointerFromTick
  /\ dragState = NoDrag
  /\ given = << >>
  /\ \E k \in DOMAIN state.invariants :
       /\ state.invariants[k].dynamic
       /\ IsFinite(state.invariants[k].position[1])
       /\ IsFinite(state.invariants[k].position[2])
       /\ dragState' = onPointerDown(state, dragState, WorldPixel(state.invariants[k]))
       /\ given' = <<[client |-> WorldPixel(state.invariants[k]),
                       tick |-> state.globals.tick]>>
  /\ UNCHANGED <<state, worldPairLocks, preset, eventLog, run, firstTrace, firstLog, applied,
                 frames,
                 telemetry>>

PointerMove ==
  /\ dragState # NoDrag
  /\ Len(given) < MaxPointerEvents
  /\ \E client \in PointerPoints :
       /\ state' = onPointerMove(state, dragState, client)
       /\ given' = Append(given, [client |-> client, tick |-> state.globals.tick])
  /\ UNCHANGED <<worldPairLocks, preset, eventLog, run, firstTrace, firstLog, applied,
                 dragState, frames,
                 telemetry>>

\* onPointerUp, onPointerCancel: endDrag (Canvas.tsx:217-231)
PointerUp ==
  /\ dragState # NoDrag
  /\ dragState' = NoDrag
  /\ UNCHANGED <<state, worldPairLocks, preset, eventLog, run, firstTrace, firstLog, given,
                 applied, frames,
                 telemetry>>

PointerNext == Step \/ PointerDown \/ PointerMove \/ PointerUp

PointerSpec == Init /\ [][PointerNext]_vars

\* ------------------------------------------------------------------------
\* Operators called by themselves on a state holding two worlds A and B:
\* B's energy, deadline and captured probes and the distance between the two
\* are drawn from small sets
\* ------------------------------------------------------------------------
TrialTick == 100
TrialEnergies == {-1000, -100, 0, 200, 400, 3500, 10000, 50000}
TrialDeadlines == {NoTick, TrialTick - 1, TrialTick, TrialTick + 1}
TrialIntakes == {0, 9, 10, 11}
TrialGaps == {2000, 3000}
WorldA == TrialTick * 1000 + 8
WorldB == TrialTick * 1000 + 9

\* a world as emergentPromotionOperator creates it (lines 867-879), later in life
TrialWorld(id, position, energy, deadline) ==
  [MkInvariant(id, position, 0, 0, U, 5000, TRUE, energy, U)
     EXCEPT !.distressUntilTick = deadline]

\* A at the origin, B at the distance gap; intake probes lie on B and so
\* within CAPTURE_RADIUS of A too
TrialState(energyA, energyB, deadline, intake, gap) ==
  LET s == createSimulationState(424242)
  IN [s EXCEPT
        !.globals.tick = TrialTick,
        !.invariants = @ \o <<TrialWorld(WorldA, <<0, 0>>, energyA, NoTick),
                                TrialWorld(WorldB, <<gap, 0>>, energyB, deadline)>>,
        !.probes = Strict([k \in 1..intake |-> MkProbe(gap, 0, U)])]

TrialInit ==
  /\ \E energyA \in {10000, 50000}, energyB \in TrialEnergies, deadline \in TrialDeadlines,
        intake \in TrialIntakes, gap \in TrialGaps :
          state = TrialState(energyA, energyB, deadline, intake, gap)
  /\ worldPairLocks = NoLocks
  /\ preset = "stage-4-promotion-ecosystem"
  /\ eventLog = {}
  /\ run = 1
  /\ firstTrace = << >>
  /\ firstLog = {}
  /\ given = << >>
  /\ applied = ""
  /\ dragState = NoDrag
  /\ frames = 0
  /\ telemetry = NoTelemetry

\* operator(state, params, dt, context) for one operator of the pipeline
Try(operator) ==
  /\ \E r \in {ApplyOperator(operator, Bind(state, worldPairLocks),
                              [presetId |-> preset, maxInvariants |-> MaxInvariants],
                              SIM_STEP)} :
        /\ state' = Unbind(r)
        /\ worldPairLocks' = r.locks
        /\ eventLog' = eventLog \cup Logged(r.events)
  /\ given' = state
  /\ applied' = operator
  /\ UNCHANGED <<preset, run, firstTrace, firstLog, dragState, frames,
                 telemetry>>

Compete ==
  /\ applied = ""
  /\ Try("competitiveEcosystem")

Lifecycle ==
  /\ applied = ""
  /\ Try("distressLifecycle")

RegulateBudget ==
  /\ applied = ""
  /\ Try("budgetRegulator")

TrialNext == Compete \/ Lifecycle \/ RegulateBudget

TrialSpec == TrialInit /\ [][TrialNext]_vars

\* ------------------------------------------------------------------------
\* distressLifecycleOperator called tick after tick on a state holding the
\* worlds A and B, neither in distress at first; between two calls the
\* energy of B is drawn anew, as the operators that run before it in a step
\* leave it
\* ------------------------------------------------------------------------
MaxLifecycleCalls == 4
LifecycleEnergies == {-1000, 0, 400, 3500}

LifecycleInit ==
  /\ \E energyB \in LifecycleEnergies : state = TrialState(10000, energyB, NoTick, 0, 2000)
  /\ worldPairLocks = NoLocks
  /\ preset = "stage-4-promotion-ecosystem"
  /\ eventLog = {}
  /\ run = 1
  /\ firstTrace = << >>
  /\ firstLog = {}
  /\ given = << >>
  /\ applied = ""
  /\ dragState = NoDrag
  /\ frames = 0
  /\ telemetry = NoTelemetry

\* the state with the energy of world B, if it lives, set
WithEnergyOfB(s, energy) ==
  [s EXCEPT !.invariants =
     [k \in DOMAIN @ |-> IF @[k].id = WorldB THEN [@[k] EXCEPT !.energy = energy] ELSE @[k]]]

LifecycleTick ==
  /\ Len(given) < MaxLifecycleCalls
  /\ \E energy \in LifecycleEnergies :
       /\ \E r \in {distressLifecycleOperator(
                       WithEnergyOfB(BeginStep(Bind(state, worldPairLocks), SIM_STEP), energy))} :
            /\ state' = Unbind(r)
            /\ eventLog' = eventLog \cup Logged(r.events)
       /\ given' = Append(given, energy)
  /\ applied' = "distressLifecycle"
  /\ UNCHANGED <<worldPairLocks, preset, run, firstTrace, firstLog, dragState, frames,
                 telemetry>>

LifecycleNext == LifecycleTick

LifecycleSpec == LifecycleInit /\ [][LifecycleNext]_vars

\* ------------------------------------------------------------------------
\* clusterCeilingOperator called tick after tick on a state holding the
\* worlds A and B within the link radius of each other; between two calls
\* the energy of both is drawn anew, as the operators that run before it in
\* a step leave it
\* ------------------------------------------------------------------------
MaxCeilingCalls == 30
CeilingEnergies == {5000, 50000, 100000}
\* the distance between A and B at first: each call under pressure shears
\* them apart, and they stay within the link radius for all the calls
CeilingGap == 500

CeilingInit ==
  /\ \E energy \in CeilingEnergies : state = TrialState(energy, energy, NoTick, 0, CeilingGap)
  /\ worldPairLocks = NoLocks
  /\ preset = "stage-4-promotion-ecosystem"
  /\ eventLog = {}
  /\ run = 1
  /\ firstTrace = << >>
  /\ firstLog = {}
  /\ given = << >>
  /\ applied = ""
  /\ dragState = NoDrag
  /\ frames = 0
  /\ telemetry = NoTelemetry

\* the state with the energy of every world set
WithEnergies(s, energy) ==
  [s EXCEPT !.invariants =
     [k \in DOMAIN @ |-> IF @[k].dynamic THEN [@[k] EXCEPT !.energy = energy] ELSE @[k]]]

CeilingTick ==
  /\ state.globals.tick < TrialTick + MaxCeilingCalls
  /\ \E energy \in CeilingEnergies :
       /\ \E r \in {clusterCeilingOperator(
                       WithEnergies(BeginStep(Bind(state, worldPairLocks), SIM_STEP), energy),
                       SIM_STEP)} :
            state' = Unbind(r)
       /\ given' = <<energy>>
  /\ applied' = "clusterCeiling"
  /\ UNCHANGED <<worldPairLocks, preset, eventLog, run, firstTrace, firstLog, dragState,
                 frames, telemetry>>

CeilingNext == CeilingTick

CeilingSpec == CeilingInit /\ [][CeilingNext]_vars

\* ------------------------------------------------------------------------
\* sampleInvariant called by itself (registry.ts:32-42) on registries whose
\* entries already hold a drawn number of samples
\* ------------------------------------------------------------------------
MaxSamples == 3
HistoryLengths == {1, 2, HISTORY_LIMIT - 1, HISTORY_LIMIT}
SampledEnergies == {0, 200}

\* the entry after registerBirth and n - 1 samples of an entity at rest
Aged(entry, n) ==
  [entry EXCEPT !.energyHistory = [k \in 1..n |-> entry.energyHistory[1]],
                !.positionHistory = n]

HistoryInit ==
  /\ \E seed \in Seeds, n \in HistoryLengths :
       state = [createSimulationState(seed) EXCEPT
                  !.globals.tick = n - 1,
                  !.registry = [k \in DOMAIN @ |-> Aged(@[k], n)]]
  /\ worldPairLocks = NoLocks
  /\ preset = "stage-1-closure"
  /\ eventLog = {}
  /\ run = 1
  /\ firstTrace = << >>
  /\ firstLog = {}
  /\ given = << >>
  /\ applied = ""
  /\ dragState = NoDrag
  /\ frames = 0
  /\ telemetry = NoTelemetry

\* one more tick's sample of one entity (engine.ts:119-121)
Sample ==
  /\ Len(given) < MaxSamples
  /\ \E k \in DOMAIN state.invariants, energy \in SampledEnergies :
       /\ state' = [state EXCEPT
                      !.globals.tick = @ + 1,
                      !.registry = sampleInvariant(@,
                                     [state.invariants[k] EXCEPT !.energy = energy])]
       /\ given' = Append(given, energy)
  /\ applied' = "sampleInvariant"
  /\ UNCHANGED <<worldPairLocks, preset, eventLog, run, firstTrace, firstLog, dragState, frames,
                 telemetry>>

HistoryNext == Sample

HistorySpec == HistoryInit /\ [][HistoryNext]_vars

\* ------------------------------------------------------------------------
\* stepSimulation called on a new simulation with a preset of the caller's
\* own: a list of operators, some of which return their result
\* ------------------------------------------------------------------------
MaxOperators == 3
PipelineOperators == {"closure", "oscillation"} \cup ReplacingOperators

PipelineInit ==
  /\ \E seed \in Seeds : state = createSimulationState(seed)
  /\ \E n \in 1..MaxOperators : \E operators \in [1..n -> PipelineOperators] :
       given = Strict(operators)
  /\ worldPairLocks = NoLocks
  /\ preset = "stage-2-oscillation"
  /\ eventLog = {}
  /\ run = 1
  /\ firstTrace = << >>
  /\ firstLog = {}
  /\ applied = ""
  /\ dragState = NoDrag
  /\ frames = 0
  /\ telemetry = NoTelemetry

\* one frame: render, then stepSimulation with the operators given
StepGiven ==
  /\ applied = ""
  /\ \E r \in {stepSimulation(Bind(render(state), worldPairLocks),
                                [id |-> preset, operators |-> given], SIM_STEP)} :
        /\ state' = Unbind(r)
        /\ worldPairLocks' = r.locks
        /\ eventLog' = eventLog \cup Logged(r.events)
        /\ firstTrace' = Append(firstTrace, r.metrics)
        /\ telemetry' = Handed(frames + 1, r, run, telemetry)
  /\ frames' = frames + 1
  /\ applied' = "stepSimulation"
  /\ UNCHANGED <<preset, run, firstLog, given, dragState>>

PipelineNext == StepGiven

PipelineSpec == PipelineInit /\ [][PipelineNext]_vars

\* ------------------------------------------------------------------------
\* Properties
\* ------------------------------------------------------------------------

\* C1: two runs of the same seed, preset and dt, each started from
\* createSimulationState(seed), have the same metrics after every tick and
\* the same registry birth and death ticks after the same number of ticks
Deterministic ==
  run = 2 =>
    /\ state.globals.tick >= 1 => state.metrics = firstTrace[state.globals.tick]
    /\ state.globals.tick = RunLength => RegistryTicks(state.registry) = firstLog

\* C2: after every step, under every preset, every entity of state.invariants
\* has finite energy, strength and stability, and its stability is in [0, 1]
FiniteEntities ==
  \A k \in DOMAIN state.invariants :
    LET inv == state.invariants[k]
    IN /\ IsFinite(inv.energy) /\ IsFinite(inv.strength) /\ IsFinite(inv.stability)
       /\ inv.stability >= 0 /\ inv.stability <= U

\* C3: the number of dynamic entities in state.invariants never exceeds
\* HELIOS_LATTICE_WORLD_CAP, also when several basins are promoted in one tick
WithinLatticeCap ==
  Len(SelectSeq(state.invariants, LAMBDA inv : inv.dynamic)) <= HELIOS_LATTICE_WORLD_CAP

\* two worlds were born in the tick just made and the cap is filled
CapFilledInOneTick ==
  /\ Len(SelectSeq(state.invariants, LAMBDA inv : inv.dynamic)) = HELIOS_LATTICE_WORLD_CAP
  /\ Cardinality({e \in Logged(state.events) : e.type = "BIRTH"}) >= 2

\* C4: every registry entry that has a deathTick was born before it, and a
\* DEATH event for its id was emitted in exactly the tick recorded
DeathsRecorded ==
  \A k \in DOMAIN state.registry :
    LET entry == state.registry[k]
    IN entry.deathTick # NoTick =>
         /\ entry.birthTick < entry.deathTick
         /\ \E e \in eventLog :
              e.type = "DEATH" /\ e.id = entry.id /\ e.tick = entry.deathTick

\* the registry holds a sealed entry
EntrySealed == \E k \in DOMAIN state.registry : state.registry[k].deathTick # NoTick

\* C5: every DEATH at tick d comes after a DISTRESS of the same entity at a
\* tick <= d - DISTRESS_GRACE_TICKS with no RECOVERY of it in between
DeathAfterGrace ==
  \A d \in eventLog :
    d.type = "DEATH" =>
      \E b \in eventLog :
        /\ b.type = "DISTRESS" /\ b.id = d.id
        /\ b.tick <= d.tick - DISTRESS_GRACE_TICKS
        /\ ~\E r \in eventLog :
              r.type = "RECOVERY" /\ r.id = d.id /\ r.tick >= b.tick /\ r.tick <= d.tick

\* an entity died
DeathSeen == \E d \in eventLog : d.type = "DEATH"

\* C6: an entity in distress whose energy is below the recovery threshold at
\* its deadline tick is removed from state.invariants in that tick, with a
\* STARVATION event followed by a DEATH event; one whose energy is at or
\* above the threshold has its distress cleared with a RECOVERY event
DeadlineRemovesOrRecovers ==
  applied = "distressLifecycle" =>
    \A k \in DOMAIN given.invariants :
      LET inv == given.invariants[k]
          Left(type) == {i \in DOMAIN state.events :
                           state.events[i].type = type /\ state.events[i].invariantId = inv.id}
          after == SelectSeq(state.invariants, LAMBDA c : c.id = inv.id)
      IN (inv.dynamic /\ inv.distressUntilTick # NoTick) =>
           IF inv.energy >= DISTRESS_RECOVERY_THRESHOLD
           THEN /\ Len(after) = 1 /\ after[1].distressUntilTick = NoTick
                /\ Left("RECOVERY") # {}
           ELSE given.globals.tick = inv.distressUntilTick =>
                  /\ Len(after) = 0
                  /\ \E i \in Left("STARVATION") : \E j \in Left("DEATH") : i < j

\* C7: in a step that detects basins, a basin no cluster matched loses exactly
\* one frame and its count becomes 0, it is deleted when its frames are <= 0,
\* a matched basin gains frames, and every basin left has frames >= 1
BasinFrames ==
  [][state'.globals.tick = state.globals.tick + 1 =>
       /\ \A k \in DOMAIN state.basins :
            LET basin == state.basins[k]
                after == SelectSeq(state'.basins, LAMBDA b : b.id = basin.id)
            IN IF Len(after) = 0
               THEN basin.frames - 1 <= 0
               ELSE /\ Len(after) = 1
                    /\ IF after[1].matched
                       THEN after[1].frames > basin.frames
                       ELSE after[1].frames = basin.frames - 1 /\ after[1].count = 0
       /\ \A k \in DOMAIN state'.basins : state'.basins[k].frames >= 1]_vars

\* a basin that no cluster matched in the step just made is still kept
BasinDecaying ==
  \E k \in DOMAIN state.basins : ~state.basins[k].matched /\ state.basins[k].count = 0

\* the state after one tick of the closure-only preset from seed 424242
AfterOneClosureTick ==
  /\ preset = "stage-1-closure" /\ state.globals.seed = 424242
  /\ state.globals.tick = 1 /\ applied = ""

\* the anchors present, by name and position
AnchorsPresent ==
  {<<AnchorName[state.anchors[k].id], state.anchors[k].position>> : k \in DOMAIN state.anchors}

\* C8 as stated: after one tick of the closure-only preset from seed 424242
\* there are exactly 2 anchors, B at (-0.5, 0) and Ci at (0.5, 0), no dynamic
\* entity, and metrics.livingInvariants = 0
TwoAnchorsAfterClosure ==
  AfterOneClosureTick =>
    /\ Len(state.anchors) = 2
    /\ AnchorsPresent = {<<"B", <<-5000, 0>>>>, <<"Ci", <<5000, 0>>>>}
    /\ \A k \in DOMAIN state.invariants : ~state.invariants[k].dynamic
    /\ state.metrics.livingInvariants = 0

\* C8: after one tick of the closure-only preset from seed 424242 there are
\* exactly the 8 configured anchors, B at (-0.5, 0) and Ci at (0.5, 0) among
\* them, no dynamic entity, and metrics.livingInvariants = 0
EightAnchorsAfterClosure ==
  AfterOneClosureTick =>
    /\ Len(state.anchors) = 8
    /\ AnchorsPresent =
         {<<"B", <<-5000, 0>>>>, <<"Ci", <<5000, 0>>>>,
          <<"B-y", <<0, -5000>>>>, <<"Ci-y", <<0, 5000>>>>,
          <<"B-r90", <<-3536, -3536>>>>, <<"Ci-r90", <<3536, -3536>>>>,
          <<"B-y-r90", <<3536, 3536>>>>, <<"Ci-y-r90", <<-3536, 3536>>>>}
    /\ \A k \in DOMAIN state.invariants : ~state.invariants[k].dynamic
    /\ state.metrics.livingInvariants = 0

\* the closure-only preset made its first tick from seed 424242
ClosureTickMade == AfterOneClosureTick /\ run = 1 /\ Len(state.invariants) = Len(state.anchors)

\* the worlds a state holds, in the order of state.invariants
Worlds(s) == SelectSeq(s.invariants, LAMBDA inv : inv.dynamic)

\* two worlds, one with less energy, were within the suppression radius
\* when competitiveEcosystemOperator was called
PairCompeted ==
  /\ applied = "competitiveEcosystem"
  /\ Len(Worlds(given)) = 2
  /\ Worlds(given)[1].energy # Worlds(given)[2].energy
  /\ Hypot(Worlds(given)[1].position[1] - Worlds(given)[2].position[1],
           Worlds(given)[1].position[2] - Worlds(given)[2].position[2]) < SUPPRESSION_RADIUS

\* index in Worlds(given) of the world with less energy, and of the other
LoserIndex == IF Worlds(given)[1].energy < Worlds(given)[2].energy THEN 1 ELSE 2
WinnerIndex == 3 - LoserIndex

\* a SUPPRESSED event names the loser as invariantId and the winner first
\* among the related ids
LoserNamed ==
  \E i \in DOMAIN state.events :
    /\ state.events[i].type = "SUPPRESSED"
    /\ state.events[i].invariantId = Worlds(given)[LoserIndex].id
    /\ Len(state.events[i].relatedIds) >= 1
    /\ state.events[i].relatedIds[1] = Worlds(given)[WinnerIndex].id

\* the probes within the capture radius of the loser
LoserIntake ==
  Cardinality({k \in DOMAIN given.probes :
     Hypot(given.probes[k].x - Worlds(given)[LoserIndex].position[1],
           given.probes[k].y - Worlds(given)[LoserIndex].position[2]) < CAPTURE_RADIUS})

StrengthSaturates ==
  \A k \in DOMAIN state.invariants :
    LET inv == state.invariants[k]
    IN (inv.dynamic /\ applied = "" /\ IsFinite(inv.energy) /\ inv.energy >= 0) =>
         /\ inv.strength = (S_MAX * ((inv.energy * U) \div (U + inv.energy))) \div U
         /\ inv.strength <= S_MAX

\* C11: within one simulation, a registry entry whose deathTick is set is
\* kept as it is by every later step: the deathTick and every other field
\* (energyHistory, positionHistory, peakStrength, kills, territoryWins)
SealedEntriesFrozen ==
  [][state'.globals.tick = state.globals.tick + 1 =>
       \A k \in DOMAIN state.registry :
         state.registry[k].deathTick # NoTick =>
           /\ k \in DOMAIN state'.registry
           /\ state'.registry[k] = state.registry[k]]_vars

\* the simulation was stepped after an entry of its registry was sealed
SteppedAfterDeath ==
  \E k \in DOMAIN state.registry :
    /\ state.registry[k].deathTick # NoTick
    /\ state.registry[k].deathTick < state.globals.tick


\* C12: the energyHistory and the positionHistory of every registry entry
\* hold at most 1200 samples, however often the entity is sampled
HistoriesWithinLimit ==
  \A k \in DOMAIN state.registry :
    /\ Len(state.registry[k].energyHistory) <= HISTORY_LIMIT
    /\ state.registry[k].positionHistory <= HISTORY_LIMIT


\* C13: every non-dynamic entity is, after any step of any preset and after
\* any pointer move, still among the entities with the position, the energy
\* and the strength it had and still not dynamic, and no DISTRESS, RECOVERY,
\* STARVATION or DEATH event and no SUPPRESSED event of a pair names an anchor
AnchorsImmutable ==
  [][/\ \A k \in DOMAIN state.invariants :
          ~state.invariants[k].dynamic =>
            /\ \E j \in DOMAIN state'.invariants :
                 state'.invariants[j].id = state.invariants[k].id
            /\ \A j \in DOMAIN state'.invariants :
                 state'.invariants[j].id = state.invariants[k].id =>
                   /\ state'.invariants[j].position = state.invariants[k].position
                   /\ state'.invariants[j].energy = state.invariants[k].energy
                   /\ state'.invariants[j].strength = state.invariants[k].strength
                   /\ ~state'.invariants[j].dynamic
     /\ \A k \in DOMAIN state'.events :
          (state'.events[k].type \in {"DISTRESS", "RECOVERY", "STARVATION", "DEATH"}
             \/ (state'.events[k].type = "SUPPRESSED" /\ state'.events[k].invariantId # NoId)) =>
            /\ state'.events[k].invariantId \notin 1..Len(AnchorName)
            /\ \A i \in DOMAIN state'.events[k].relatedIds :
                 state'.events[k].relatedIds[i] \notin 1..Len(AnchorName)]_vars

\* a world was dragged by the pointer and the simulation stepped on, with the
\* eight anchors among the entities and a world starving in the step
DraggedBesideAnchors ==
  /\ Len(given) = 2
  /\ state.globals.tick > PointerFromTick
  /\ Cardinality({k \in DOMAIN state.invariants : ~state.invariants[k].dynamic}) = 8
  /\ \E k \in DOMAIN state.events : state.events[k].type = "STARVATION"


\* the reasons of the SUPPRESSED events the operators emit without an entity
\* (stagePresets.ts:567, 843, 888)
OperatorNotices ==
  {"cluster ceiling pressure", "promotion blocked at cluster ceiling",
   "helios lattice threshold reached (4x4x4); particle respawn disabled"}

\* the events of s of type SUPPRESSED that name no entity and are no notice of
\* an operator
Synthetic(s) ==
  {k \in DOMAIN s.events :
     /\ s.events[k].type = "SUPPRESSED"
     /\ s.events[k].invariantId = NoId
     /\ s.events[k].reason \notin OperatorNotices}

\* C14: every step ends with the violations of its final state reported and
\* nothing else done about them: when validateState finds none, no SUPPRESSED
\* event besides those of the operators is among the events of the tick; when it finds
\* some, exactly one is, it is the last event, its tick is the current tick
\* and its reason is the codes joined by commas; and the step was taken
\* whether or not the state before it had violations
ViolationsReported ==
  [][state'.globals.tick = state.globals.tick + 1 =>
       LET violations == validateState(state', CONSTITUTION_HASH)
       IN IF Len(violations) = 0 THEN Synthetic(state') = {}
          ELSE /\ Synthetic(state') = {Len(state'.events)}
               /\ state'.events[Len(state'.events)].tick = state'.globals.tick
               /\ state'.events[Len(state'.events)].reason = JoinCodes(violations, 1)]_vars

\* a step that followed a step has reported several violations in one event
SeveralViolationsReported ==
  /\ state.globals.tick >= 2
  /\ Len(validateState(state, CONSTITUTION_HASH)) >= 2
  /\ Synthetic(state) # {}


\* the position of inv exceeds the half-extent of the world plus the overflow
\* margin on an axis
Beyond(s, inv) ==
  \/ Gt(MathAbs(inv.position[1]), Add(s.globals.worldHalfW, s.globals.worldOverflow))
  \/ Gt(MathAbs(inv.position[2]), Add(s.globals.worldHalfH, s.globals.worldOverflow))

\* the position of inv is out of the domain on an axis
OutOfDomain(s, inv) ==
  \/ Gt(MathAbs(inv.position[1]), s.globals.domainRadius)
  \/ Gt(MathAbs(inv.position[2]), s.globals.domainRadius)

\* C15: an entity whose position exceeds the half-extent plus the overflow
\* margin at the end of a tick, the pointer not having moved it since, does
\* not exceed it at the end of the next tick; and a step that leaves a
\* position out of the domain ends with the validator's event
WithinOverflowAfterOneTick ==
  [][state'.globals.tick = state.globals.tick + 1 =>
       /\ (\A i \in DOMAIN given : given[i].tick # state.globals.tick) =>
            \A k \in DOMAIN state.invariants : \A j \in DOMAIN state'.invariants :
              (state.invariants[k].id = state'.invariants[j].id
                 /\ Beyond(state, state.invariants[k]))
                => ~Beyond(state', state'.invariants[j])
       /\ (\E j \in DOMAIN state'.invariants : OutOfDomain(state', state'.invariants[j]))
            => Synthetic(state') # {}]_vars


\* totalEnergy - state.globals.budget of the regulator (stagePresets.ts:973, 978)
BudgetError(s) == Sub(PositiveEnergy(dynamicInvariants(s)), s.globals.budget)

\* Math.abs(error) < EPSILON (stagePresets.ts:979, 983)
InDeadband(s) ==
  Lt(MathAbs(BudgetError(s)),
     Mul(200, deriveAlignmentControl(evaluateAlignment(s.metrics)).deadbandScale))

ReplacementCarried ==
  [][applied' = "stepSimulation" =>
       state' = Unbind(Conclude(
                  compose(given, 1,
                          Thread(BeginStep(Bind(render(state), worldPairLocks), SIM_STEP)),
                          [presetId |-> preset, maxInvariants |-> MaxInvariants],
                          SIM_STEP).nextState))]_vars


\* what is reached from a telemetry record t while the simulation is in
\* state s: its own values and the registry entries its array refers to
Reached(t, s) ==
  [tick |-> t.tick, metrics |-> t.metrics, eventCount |-> t.eventCount,
   anchors |-> t.anchors,
   registryEntries |->
     [k \in DOMAIN t.registryEntries |-> s.registry[EntryIndex(s.registry, t.registryEntries[k])]]]

\* C18: a step of the simulation that hands over no new telemetry record
\* changes nothing that is reached from the record handed over before:
\* metrics, anchors, registry entries and their histories
TelemetryIsSnapshot ==
  [][(/\ telemetry' = telemetry
      /\ telemetry.simulation = run
      /\ run' = run
      /\ state'.globals.tick = state.globals.tick + 1)
       => Reached(telemetry, state') = Reached(telemetry, state)]_vars


\* C19: the snap locks a simulation sees are locks it acquired itself: a
\* simulation that has not made a step yet sees none, and a lock it sees
\* later was set at one of its own ticks
LocksAreOwn ==
  /\ state.globals.tick = 0 => worldPairLocks = NoLocks
  /\ \A pair \in DOMAIN worldPairLocks :
       worldPairLocks[pair] - WORLD_SNAP_LOCK_TICKS \in 1..state.globals.tick


\* C20: in every state reached from createSimulationState by stepping, the
\* regulator's integral is a finite number within the anti-windup range
IntegralInRange ==
  state.globals.tick >= 1 =>
    /\ IsFinite(state.globals.regulatorIntegral)
    /\ Le(MathAbs(state.globals.regulatorIntegral), INTEGRAL_LIMIT)


\* the error the regulator acts on lies outside its deadband
\* (stagePresets.ts:978-986), the metrics taken as the operator takes them
OutsideDeadband(s) ==
  ~Lt(MathAbs(BudgetError(s)),
      Mul(200, deriveAlignmentControl(evaluateAlignment(computeMetrics(s))).deadbandScale))

\* C21: a call of the budget regulator on worlds whose total energy lies
\* outside the deadband does not raise the total of the worlds' energies
\* floored at 0 when that total exceeds the budget, and does not lower it
\* when the total is below the budget
CorrectionOpposesError ==
  (/\ applied = "budgetRegulator"
   /\ dynamicWorldCount(given) > 0
   /\ OutsideDeadband(given))
    => /\ Gt(BudgetError(given), 0)
            => Le(PositiveEnergy(dynamicInvariants(state)),
                  PositiveEnergy(dynamicInvariants(given)))
       /\ Lt(BudgetError(given), 0)
            => Ge(PositiveEnergy(dynamicInvariants(state)),
                  PositiveEnergy(dynamicInvariants(given)))


\* the presets whose pipeline holds basinDetectionOperator
DetectingPresets ==
  {p \in stagePresets : \E k \in DOMAIN Operators(p) : Operators(p)[k] = "basinDetection"}

\* C22: in a step of a preset with basin detection, when fewer worlds than
\* the lattice cap exist as the step begins the pool holds exactly
\* TARGET_PARTICLES probes after it; when the cap is reached the pool does not
\* grow and holds no probe outside the world; no trail exceeds
\* MAX_PROBE_TRAIL_POINTS points
ProbePoolSized ==
  [][(preset \in DetectingPresets /\ state'.globals.tick = state.globals.tick + 1)
       => /\ dynamicWorldCount(state) < HELIOS_LATTICE_WORLD_CAP
               => Len(state'.probes) = TARGET_PARTICLES
          /\ dynamicWorldCount(state) >= HELIOS_LATTICE_WORLD_CAP
               => /\ Len(state'.probes) <= Len(state.probes)
                  /\ \A k \in DOMAIN state'.probes : ~OutOfBounds(state', state'.probes[k])
          /\ \A k \in DOMAIN state'.probes :
               state'.probes[k].trail \in 1..MAX_PROBE_TRAIL_POINTS]_vars

\* the lattice is full, probes have been destroyed and not replaced, and a
\* surviving probe carries a full trail
PoolDrained ==
  /\ preset \in DetectingPresets
  /\ dynamicWorldCount(state) >= HELIOS_LATTICE_WORLD_CAP
  /\ Len(state.probes) \in 1..(TARGET_PARTICLES - 1)
  /\ \E k \in DOMAIN state.probes : state.probes[k].trail = MAX_PROBE_TRAIL_POINTS

\* below the cap again, after one world was dragged out of the world and the
\* other died: the pool is full, and probes that left the world in this step
\* were replaced in place (age 0, where a probe pushed by the fill has age 1)
RespawnedInPlace ==
  /\ preset \in DetectingPresets
  /\ dynamicWorldCount(state) \in 1..(HELIOS_LATTICE_WORLD_CAP - 1)
  /\ Len(state.probes) = TARGET_PARTICLES
  /\ \E k \in DOMAIN state.probes : state.probes[k].age = 0


\* the presets whose pipeline holds emergentPromotionOperator
PromotingPresets ==
  {p \in stagePresets : \E k \in DOMAIN Operators(p) : Operators(p)[k] = "emergentPromotion"}

\* the state emergentPromotionOperator is called on in the step render makes
\* from the current state: the operators before it have run
BeforePromotion ==
  LET operators == Operators(preset)
      at == CHOOSE k \in DOMAIN operators : operators[k] = "emergentPromotion"
  IN compose(SubSeq(operators, 1, at - 1), 1,
             Thread(BeginStep(Bind(render(state), worldPairLocks), SIM_STEP)),
             [presetId |-> preset, maxInvariants |-> MaxInvariants], SIM_STEP).state

\* the PROMOTION event of an entity directly followed by its BIRTH event
Announced(events, id, tick) ==
  \E e \in DOMAIN events \ {Len(events)} :
    /\ events[e].type = "PROMOTION" /\ events[e].invariantId = id /\ events[e].tick = tick
    /\ events[e + 1].type = "BIRTH" /\ events[e + 1].invariantId = id
    /\ events[e + 1].tick = tick

Distance(a, b) == Hypot(Sub(a[1], b[1]), Sub(a[2], b[2]))

\* what holds of the entity the operator pushed at index k, the state taken
\* from before to after
PromotedWell(before, after, k) ==
  LET created == after.invariants[k]
  IN /\ \E b \in DOMAIN before.basins :
          /\ before.basins[b].id = created.originClusterId
          /\ before.basins[b].frames >= PROMOTION_MIN_FRAMES
          /\ before.basins[b].count >= PROMOTION_MIN_COUNT
          /\ created.position = <<before.basins[b].x, before.basins[b].y>>
     /\ \A j \in 1..(k - 1) :
          /\ Ge(Distance(after.invariants[j].position, created.position),
                PROMOTION_CLEAR_RADIUS)
          /\ ~after.invariants[j].dynamic
               => Ge(Distance(after.invariants[j].position, created.position),
                     ANCHOR_EXCLUSION_RADIUS)
     /\ created.dynamic
     /\ Gt(created.energy, DISTRESS_RECOVERY_THRESHOLD)
     /\ Announced(Emitted(before, after), created.id, after.globals.tick)

\* C23: every entity a step promotes comes from a basin with frames >= 10
\* and count >= 10, is created at that basin's position, at least 0.1 from
\* every entity present (those promoted before it in the tick included) and
\* at least 0.13 from every anchor, starts with energy above the recovery
\* threshold, and has its PROMOTION event followed by its BIRTH event among
\* the events of the tick; every dynamic entity new after the step is such
\* an entity
PromotionsWellFounded ==
  [][(preset \in PromotingPresets /\ state'.globals.tick = state.globals.tick + 1)
       => LET before == BeforePromotion
              after == emergentPromotionOperator(before, MaxInvariants)
          IN /\ \A k \in (Len(before.invariants) + 1)..Len(after.invariants) :
                  /\ PromotedWell(before, after, k)
                  /\ Announced(state'.events, after.invariants[k].id, state'.globals.tick)
             /\ \A i \in DOMAIN state'.invariants :
                  (/\ state'.invariants[i].dynamic
                   /\ \A j \in DOMAIN state.invariants :
                        state.invariants[j].id # state'.invariants[i].id)
                    => \E k \in (Len(before.invariants) + 1)..Len(after.invariants) :
                         after.invariants[k].id = state'.invariants[i].id]_vars

\* a basin was promoted in a tick in which a world born in an earlier tick
\* was alive
PromotedBesideWorld ==
  /\ preset \in PromotingPresets
  /\ \E e \in DOMAIN state.events : state.events[e].type = "PROMOTION"
  /\ \E i \in DOMAIN state.invariants :
        /\ state.invariants[i].dynamic
        /\ state.invariants[i].id \div 1000 < state.globals.tick


\* C24: each call of stepSimulation raises globals.tick by exactly 1, and
\* the events the state holds when it returns all carry that tick: none is
\* left from an earlier tick
EventsOfThisTick ==
  [][frames' = frames + 1
       => /\ state'.globals.tick = state.globals.tick + 1
          /\ \A e \in DOMAIN state'.events :
               state'.events[e].tick = state'.globals.tick]_vars

\* a step that left events, after an earlier step of the same simulation had
\* left lifecycle events too
EventsAfterEarlierEvents ==
  /\ state.events # << >>
  /\ \E l \in eventLog : l.tick < state.globals.tick


\* the two entities a lock names are both dynamic entities of the state
BothAlive(s, key) ==
  \E i, j \in DOMAIN s.invariants :
    /\ i < j
    /\ s.invariants[i].dynamic /\ s.invariants[j].dynamic
    /\ pairKey(s.invariants[i].id, s.invariants[j].id) = key

\* C25: a lock written in the step of tick t expires at t + WORLD_SNAP_LOCK_TICKS;
\* while the tick is not past its expiry a lock is neither removed nor given
\* another expiry; in the first step past its expiry in which both its
\* entities are alive the lock is removed (with the release impulse), and it
\* is left as it is while one of them is missing
LockWindowFixed ==
  [][frames' = frames + 1
       => \A key \in DOMAIN worldPairLocks \cup DOMAIN worldPairLocks' :
            /\ key \notin DOMAIN worldPairLocks
                 => worldPairLocks'[key] = state'.globals.tick + WORLD_SNAP_LOCK_TICKS
            /\ (key \in DOMAIN worldPairLocks /\ state'.globals.tick <= worldPairLocks[key])
                 => /\ key \in DOMAIN worldPairLocks'
                    /\ worldPairLocks'[key] = worldPairLocks[key]
            /\ (/\ key \in DOMAIN worldPairLocks
                /\ state'.globals.tick > worldPairLocks[key]
                /\ BothAlive(state, key))
                 => key \notin DOMAIN worldPairLocks'
            /\ (/\ key \in DOMAIN worldPairLocks
                /\ state'.globals.tick > worldPairLocks[key]
                /\ ~BothAlive(state, key))
                 => /\ key \in DOMAIN worldPairLocks'
                    /\ worldPairLocks'[key] = worldPairLocks[key]]_vars


\* a lock written by this simulation has stayed through its window: the tick
\* is its expiry, both its entities are alive, and the step that releases it
\* is still to come
LockInLastTick ==
  /\ run = 1
  /\ state.globals.tick < TickLimit
  /\ \E key \in DOMAIN worldPairLocks :
       /\ worldPairLocks[key] = state.globals.tick
       /\ BothAlive(state, key)


\* the points the registry entry of the living entity s.invariants[k] reads:
\* every sample is the entity's own position array (registry.ts:19, 40 push
\* inv.position, and the operators and the pointer write that array in place)
PositionHistory(s, k) ==
  [n \in 1..s.registry[EntryIndex(s.registry, s.invariants[k].id)].positionHistory |->
     s.invariants[k].position]

\* the first living dynamic entity with the id, 0 if there is none
\* (sim.invariants.find, Canvas.tsx:203)
Named(s, id) ==
  IF \E k \in DOMAIN s.invariants : s.invariants[k].id = id /\ s.invariants[k].dynamic
  THEN CHOOSE k \in DOMAIN s.invariants :
         /\ s.invariants[k].id = id /\ s.invariants[k].dynamic
         /\ \A j \in 1..(k - 1) : ~(s.invariants[j].id = id /\ s.invariants[j].dynamic)
  ELSE 0

\* C26: a pointer write between two steps changes the position and the
\* velocity of the living dynamic entity it names and nothing else the state
\* holds - no other entity, no probe, basin, global, event or metric, and no
\* sample the registry keeps; a write that names no living dynamic entity
\* changes nothing
WriteTouchesOnlyEntity ==
  [][(dragState # NoDrag /\ Len(given') = Len(given) + 1)
       => LET k == Named(state, dragState.worldId)
          IN IF k = 0 THEN state' = state
             ELSE /\ state' = [state EXCEPT
                                 !.invariants[k].position = state'.invariants[k].position,
                                 !.invariants[k].vx = state'.invariants[k].vx,
                                 !.invariants[k].vy = state'.invariants[k].vy]
                  /\ \A j \in DOMAIN state.invariants :
                       HasEntry(state.registry, state.invariants[j].id)
                         => PositionHistory(state', j) = PositionHistory(state, j)]_vars


\* the ids of the dynamic entities the state holds
LivingDynamicIds(s) ==
  {s.invariants[k].id : k \in {i \in DOMAIN s.invariants : s.invariants[i].dynamic}}

\* the ids of dynamic entities whose registry entry is not sealed
OpenDynamicEntries(s) ==
  {s.registry[k].id : k \in {i \in DOMAIN s.registry :
                                /\ s.registry[i].id > Len(AnchorName)
                                /\ s.registry[i].deathTick = NoTick}}

\* C27: after every step the dynamic entities in state.invariants are
\* exactly the dynamic ids with an unsealed registry entry: a promoted entity
\* has its entry from its birth tick on, and an entity that left
\* state.invariants has its entry sealed in that step
RegistryMatchesLiving ==
  state.globals.tick >= 1 => LivingDynamicIds(state) = OpenDynamicEntries(state)


\* a world has died and has its entry sealed while another world lives with
\* its entry open
SealedBesideLiving ==
  /\ LivingDynamicIds(state) # {}
  /\ \E k \in DOMAIN state.registry :
       /\ state.registry[k].id > Len(AnchorName)
       /\ state.registry[k].deathTick # NoTick


\* the events of one type the simulation has emitted for an entity
EventsOf(log, type, id) == {l \in log : l.type = type /\ l.id = id}

\* DISTRESS and RECOVERY events of each entity alternate, DISTRESS first
Alternating(log) ==
  \A id \in {l.id : l \in log} :
    /\ \A r \in EventsOf(log, "RECOVERY", id) :
         \E d \in EventsOf(log, "DISTRESS", id) :
           /\ d.tick < r.tick
           /\ \A other \in EventsOf(log, "RECOVERY", id) :
                ~(d.tick < other.tick /\ other.tick < r.tick)
    /\ \A d1, d2 \in EventsOf(log, "DISTRESS", id) :
         (d1.tick < d2.tick \/ (d1.tick = d2.tick /\ d1 # d2))
           => \E r \in EventsOf(log, "RECOVERY", id) : d1.tick < r.tick /\ r.tick < d2.tick

\* C28: a call of the lifecycle operator emits RECOVERY only for an entity
\* that has a distress deadline, and clears it; it emits DISTRESS only for
\* an entity that has none, and sets it; a deadline that is set stays as it
\* is while no RECOVERY clears it; so the two events of an entity alternate,
\* DISTRESS first
DistressAlternates ==
  [][/\ \A k \in DOMAIN state.invariants :
          LET inv == state.invariants[k]
              recovery == \E e \in DOMAIN state'.events :
                            /\ state'.events[e].type = "RECOVERY"
                            /\ state'.events[e].invariantId = inv.id
              distress == \E e \in DOMAIN state'.events :
                            /\ state'.events[e].type = "DISTRESS"
                            /\ state'.events[e].invariantId = inv.id
              after == SelectSeq(state'.invariants, LAMBDA c : c.id = inv.id)
          IN inv.dynamic
               => /\ recovery => inv.distressUntilTick # NoTick
                  /\ distress => inv.distressUntilTick = NoTick
                  /\ ~(recovery /\ distress)
                  /\ \A a \in DOMAIN after :
                       /\ recovery => after[a].distressUntilTick = NoTick
                       /\ distress => after[a].distressUntilTick
                                        = state'.globals.tick + DISTRESS_GRACE_TICKS
                       /\ (~recovery /\ ~distress)
                            => after[a].distressUntilTick = inv.distressUntilTick
     /\ Alternating(eventLog')]_vars

\* an entity went into distress, recovered, and is in distress again
DistressedAgain ==
  \E id \in {l.id : l \in eventLog} :
    /\ Cardinality(EventsOf(eventLog, "DISTRESS", id)) = 2
    /\ Cardinality(EventsOf(eventLog, "RECOVERY", id)) = 1


\* C29: in a step a basin's frames rise by at most 1 and a new basin starts
\* with frames = 1, so a basin with frames = k has been there for at least k
\* ticks (its id carries the tick it was made in) and none is eligible for
\* promotion before it has persisted PROMOTION_MIN_FRAMES ticks
FramesRiseByOne ==
  [][state'.globals.tick = state.globals.tick + 1 =>
       \A j \in DOMAIN state'.basins :
         LET basin == state'.basins[j]
         IN /\ \A k \in DOMAIN state.basins :
                 state.basins[k].id = basin.id => basin.frames <= state.basins[k].frames + 1
            /\ basin.frames <= state'.globals.tick - (basin.id \div 1000) + 1]_vars


\* C30: the budget stays within [0.3, DYNAMIC_CLUSTER_BUDGET_MAX] and no
\* step lowers it
BudgetMonotone ==
  [][/\ Ge(state.globals.budget, 3000) /\ Le(state.globals.budget, DYNAMIC_CLUSTER_BUDGET_MAX)
     /\ Ge(state'.globals.budget, 3000) /\ Le(state'.globals.budget, DYNAMIC_CLUSTER_BUDGET_MAX)
     /\ state'.globals.tick = state.globals.tick + 1
          => Ge(state'.globals.budget, state.globals.budget)]_vars

\* the cluster ceiling harvested energy in the call just made, and the
\* budget stands at its cap
BudgetAtCap ==
  /\ applied = "clusterCeiling"
  /\ \E e \in DOMAIN state.events : state.events[e].reason = "cluster ceiling pressure"
  /\ state.globals.budget = DYNAMIC_CLUSTER_BUDGET_MAX

=============================================================================
